---------------------------- MODULE Spec2Model ----------------------------
(***************************************************************************)
(* A model of CMIDIDevice (src/src/mididevice.cpp of MiniDexed): the       *)
(* per-device channel map and NRPN registers, the process-wide device      *)
(* registry, the MIDI Thru forward, the spin lock around the message       *)
(* handler, and the handler itself, one step per section of its code.      *)
(*                                                                         *)
(* The synthesizer, the user interface and the devices' Send are           *)
(* collaborators: every call the handler makes on them is appended to the  *)
(* call log of the invocation that makes it.                               *)
(***************************************************************************)
EXTENDS Integers, Sequences, FiniteSets

(***************************************************************************)
(* Bounds of the model.                                                    *)
(***************************************************************************)
\* CConfig::ToneGenerators, the number of slots (config.h is not in src/).
NumTG == 2

TGs == 0 .. (NumTG - 1)

\* The device instances (objects of class CMIDIDevice).
Devs == {1, 2}

\* The independent input contexts that call MIDIMessageHandler.
Srcs == {1, 2}

(***************************************************************************)
(* Constants of mididevice.cpp.                                            *)
(***************************************************************************)
MIDI_NOTE_OFF == 8
MIDI_NOTE_ON == 9
MIDI_AFTERTOUCH == 10
MIDI_CHANNEL_AFTERTOUCH == 13
MIDI_CONTROL_CHANGE == 11
MIDI_CC_BANK_SELECT_MSB == 0
MIDI_CC_MODULATION == 1
MIDI_CC_BREATH_CONTROLLER == 2
MIDI_CC_FOOT_PEDAL == 4
MIDI_CC_VOLUME == 7
MIDI_CC_PAN_POSITION == 10
MIDI_CC_BANK_SELECT_LSB == 32
MIDI_CC_BANK_SUSTAIN == 64
MIDI_CC_RESONANCE == 71
MIDI_CC_FREQUENCY_CUTOFF == 74
MIDI_CC_REVERB_LEVEL == 91
MIDI_CC_DETUNE_LEVEL == 94
MIDI_CC_ALL_SOUND_OFF == 120
MIDI_CC_ALL_NOTES_OFF == 123
MIDI_CC_NRPN_PARAM_MSB == 99
MIDI_CC_NRPN_PARAM_LSB == 98
MIDI_CC_NRPN_DATA_LSB == 38
MIDI_PROGRAM_CHANGE == 12
MIDI_PITCH_BEND == 14
MIDI_SYSTEM_EXCLUSIVE_BEGIN == 240
MIDI_SYSTEM_EXCLUSIVE_END == 247
MIDI_TIMING_CLOCK == 248
MIDI_ACTIVE_SENSING == 254
MIDI_NRPN_PROGRAM_CHANGE == 21

\* enum TChannel of mididevice.h: the channels 0..15, then OmniMode, Disabled.
OmniMode == 16
Disabled == 17

\* sizeof(voicedump), the length of every voice-dump frame.
VoiceDumpSize == 163

\* Send (pMessage, nLength) leaves nCable to its default.
DefaultCable == 0

\* The slot of a call that addresses no slot.
NoTG == 0 - 1

(***************************************************************************)
(* Integer arithmetic of the C code.                                       *)
(***************************************************************************)
RECURSIVE BitAnd(_, _)
\* a & b on non-negative integers
BitAnd(a, b) ==
    IF a = 0 \/ b = 0 THEN 0
    ELSE (IF a % 2 = 1 /\ b % 2 = 1 THEN 1 ELSE 0)
         + 2 * BitAnd(a \div 2, b \div 2)

RECURSIVE BitOr(_, _)
\* a | b on non-negative integers
BitOr(a, b) ==
    IF a = 0 THEN b
    ELSE IF b = 0 THEN a
    ELSE (IF a % 2 = 1 \/ b % 2 = 1 THEN 1 ELSE 0)
         + 2 * BitOr(a \div 2, b \div 2)

\* a / b of C for b > 0: the quotient truncated toward zero
CDiv(a, b) == IF a >= 0 THEN a \div b ELSE 0 - ((0 - a) \div b)

\* (uint8_t) x
U8(x) == x % 256

\* scale as it would be if it divided by the number of values, 128.
scale_By128(max, value) == U8((value * max) \div 128)

\* uint8_t scale(uint8_t max, uint8_t value)
scale(max, value) == U8((value * max) \div 127)

\* long maplong(long x, long in_min, long in_max, long out_min, long out_max)
maplong(x, in_min, in_max, out_min, out_max) ==
    CDiv((x - in_min) * (out_max - out_min), in_max - in_min) + out_min

RECURSIVE SeqOf(_)
\* The elements of a finite set in the order an iteration visits them.
SeqOf(S) ==
    IF S = {} THEN <<>>
    ELSE LET x == CHOOSE y \in S : TRUE
         IN  <<x>> \o SeqOf(S \ {x})

(***************************************************************************)
(* Messages and calls.                                                     *)
(*                                                                         *)
(* A message is [buf, cable, beyond, code]: the nLength = Len(buf) bytes   *)
(* handed in; the port; the bytes that lie in memory behind the buffer,    *)
(* which a read of pMessage[i] with i >= nLength returns (any values,      *)
(* beyond[i + 1] is the byte at index i); and, for a SysEx frame, the      *)
(* answer the synthesizer's checkSystemExclusive gives for it.             *)
(***************************************************************************)
nLength(m) == Len(m.buf)

\* pMessage[i]
Byte(m, i) == IF i < Len(m.buf) THEN m.buf[i + 1] ELSE m.beyond[i + 1]

ucStatus(m) == Byte(m, 0)
ucChannel(m) == BitAnd(ucStatus(m), 15)
ucType(m) == ucStatus(m) \div 16

\* A call on the synthesizer or the user interface; tg is the slot it names
\* (its nTG argument, or the receiver m_pTG[nTG]), args are its other arguments.
Call(fn, args, tg) ==
    [fn |-> fn, args |-> args, tg |-> tg, ptr |-> "", bytes |-> <<>>]

\* A call that is handed the received buffer itself.
BufCall(fn, args, tg, m) ==
    [fn |-> fn, args |-> args, tg |-> tg, ptr |-> "pMessage", bytes |-> m.buf]

\* Iterator->second->Send (pMessage, nLength, nCable) on device `to`
ThruSend(to, m) ==
    [fn |-> "Send", args |-> <<to, nLength(m), m.cable>>, tg |-> NoTG,
     ptr |-> "pMessage", bytes |-> m.buf]

\* Iterator->second->Send (voicedump, sizeof(voicedump)) on device `to`
DumpSend(to, nTG) ==
    [fn |-> "Send", args |-> <<to, VoiceDumpSize, DefaultCable>>, tg |-> nTG,
     ptr |-> "voicedump", bytes |-> <<>>]

(***************************************************************************)
(* SendSystemExclusiveVoice: the dump of slot nTG is fetched and sent to   *)
(* every device of the registry; nVoice and nCable are not used.           *)
(***************************************************************************)
SendSystemExclusiveVoice(nVoice, nCable, nTG, DeviceMap) ==
    <<Call("getSysExVoiceDump", <<>>, nTG)>>
    \o [k \in 1 .. Cardinality(DeviceMap) |->
            DumpSend(SeqOf(DeviceMap)[k][2], nTG)]

(***************************************************************************)
(* The NRPN tables: the case labels of the two switches on m_NRPNoffset,   *)
(* in the order of the enumerations of the synthesizer library             *)
(* (DEXED_OP_EG_R1 = 0 .. DEXED_OP_OSC_DETUNE = 20 and                     *)
(* DEXED_PITCH_EG_R1 = 0 .. DEXED_TRANSPOSE = 18).  Entry o + 1 is the     *)
(* setter of offset o: its name, its arguments before the value, and the   *)
(* ceiling the value is scaled to.                                         *)
(***************************************************************************)
P(fn, pre, max) == [fn |-> fn, pre |-> pre, max |-> max]

OpParams ==
    << P("setOPRate", <<0>>, 99), P("setOPRate", <<1>>, 99),
       P("setOPRate", <<2>>, 99), P("setOPRate", <<3>>, 99),
       P("setOPLevel", <<0>>, 99), P("setOPLevel", <<1>>, 99),
       P("setOPLevel", <<2>>, 99), P("setOPLevel", <<3>>, 99),
       P("setOPKeyboardLevelScalingBreakPoint", <<>>, 99),
       P("setOPKeyboardLevelScalingDepthLeft", <<>>, 99),
       P("setOPKeyboardLevelScalingDepthRight", <<>>, 99),
       P("setOPKeyboardLevelScalingCurveLeft", <<>>, 3),
       P("setOPKeyboardLevelScalingCurveRight", <<>>, 3),
       P("setOPKeyboardRateScale", <<>>, 7),
       P("setOPAmpModulationSensity", <<>>, 3),
       P("setOPKeyboardVelocitySensity", <<>>, 7),
       P("setOPOutputLevel", <<>>, 99),
       P("setOPMode", <<>>, 1),
       P("setOPFrequencyCoarse", <<>>, 31),
       P("setOPFrequencyFine", <<>>, 99),
       P("setOPDetune", <<>>, 14) >>

VoiceParams ==
    << P("setPitchRate", <<0>>, 99), P("setPitchRate", <<1>>, 99),
       P("setPitchRate", <<2>>, 99), P("setPitchRate", <<3>>, 99),
       P("setPitchLevel", <<0>>, 99), P("setPitchLevel", <<1>>, 99),
       P("setPitchLevel", <<2>>, 99), P("setPitchLevel", <<3>>, 99),
       P("setAlgorithm", <<>>, 31),
       P("setFeedback", <<>>, 7),
       P("setOscillatorSync", <<>>, 1),
       P("setLFOSpeed", <<>>, 99),
       P("setLFODelay", <<>>, 99),
       P("setLFOPitchModulationDepth", <<>>, 99),
       P("setLFOAmpModulationDepth", <<>>, 99),
       P("setLFOSync", <<>>, 1),
       P("setLFOWaveform", <<>>, 4),
       P("setLFOPitchModulationSensitivity", <<>>, 7),
       P("setTranspose", <<>>, 48) >>

\* switch(m_NRPNoffset[nTG]) of the branch m_NRPNop[nTG] < 6
OpSetter(op, offset, value, nTG) ==
    IF offset + 1 \in DOMAIN OpParams
    THEN LET p == OpParams[offset + 1]
         IN  <<Call(p.fn, <<op>> \o p.pre \o <<scale(p.max, value)>>, nTG)>>
    ELSE <<>>

\* switch(m_NRPNoffset[nTG]) of the branch m_NRPNop[nTG] == 6
VoiceSetter(offset, value, nTG) ==
    IF offset + 1 \in DOMAIN VoiceParams
    THEN LET p == VoiceParams[offset + 1]
         IN  <<Call(p.fn, p.pre \o <<scale(p.max, value)>>, nTG)>>
    ELSE <<>>

\* The data entry as it would be without case MIDI_NRPN_PROGRAM_CHANGE.
NRPNDataLSB_NoProgramChange(op, offset, value, nTG, DeviceMap) ==
    (IF op < 6
     THEN OpSetter(op, offset, value, nTG)
          \o SendSystemExclusiveVoice(0, 0, nTG, DeviceMap)
     ELSE <<>>)
    \o
    (IF op = 6
     THEN VoiceSetter(offset, value, nTG)
          \o SendSystemExclusiveVoice(0, 0, nTG, DeviceMap)
     ELSE <<>>)

\* case MIDI_CC_NRPN_DATA_LSB
NRPNDataLSB(op, offset, value, nTG, DeviceMap) ==
    IF offset = MIDI_NRPN_PROGRAM_CHANGE
    THEN <<Call("ProgramChange", <<value>>, nTG)>>
    ELSE (IF op < 6
          THEN OpSetter(op, offset, value, nTG)
               \o SendSystemExclusiveVoice(0, 0, nTG, DeviceMap)
          ELSE <<>>)
         \o
         (IF op = 6
          THEN VoiceSetter(offset, value, nTG)
               \o SendSystemExclusiveVoice(0, 0, nTG, DeviceMap)
          ELSE <<>>)

(***************************************************************************)
(* switch (pMessage[1]) of case MIDI_CONTROL_CHANGE, for one slot: the     *)
(* calls it makes.  chan is m_ChannelMap[nTG], op and offset are the       *)
(* slot's NRPN registers, config is the configuration.                     *)
(***************************************************************************)
\* The detune case as it would be without the test for the value 0.
DetuneLevel_NoZeroCase(v, nTG) ==
    <<Call("SetMasterTune", <<maplong(v, 1, 127, 0 - 99, 99)>>, nTG)>>

\* case MIDI_CC_DETUNE_LEVEL
DetuneLevel(v, nTG) ==
    IF v = 0
    THEN <<Call("SetMasterTune", <<0>>, nTG)>>
    ELSE <<Call("SetMasterTune", <<maplong(v, 1, 127, 0 - 99, 99)>>, nTG)>>

\* All Notes Off as it would be without the test for Omni.
AllNotesOff_OmniToo(v, nTG, chan, config) ==
    IF ~config.IgnoreAllNotesOff
    THEN <<Call("notesOff", <<v>>, nTG)>>
    ELSE <<>>

\* case MIDI_CC_ALL_NOTES_OFF
AllNotesOff(v, nTG, chan, config) ==
    IF ~config.IgnoreAllNotesOff /\ chan # OmniMode
    THEN <<Call("notesOff", <<v>>, nTG)>>
    ELSE <<>>

\* The rescaled cases as they would be if they passed the value on as it is.
Rescaled_Raw(fn, v, nTG) == <<Call(fn, <<v>>, nTG)>>

\* case MIDI_CC_RESONANCE, MIDI_CC_FREQUENCY_CUTOFF, MIDI_CC_REVERB_LEVEL
Rescaled(fn, v, nTG) == <<Call(fn, <<maplong(v, 0, 127, 0, 99)>>, nTG)>>

ControlChange(m, nTG, chan, op, offset, config, DeviceMap) ==
    LET cc == Byte(m, 1)
        v  == Byte(m, 2)
    IN  CASE cc = MIDI_CC_MODULATION ->
               <<Call("setModWheel", <<v>>, nTG),
                 Call("ControllersRefresh", <<>>, nTG)>>
          [] cc = MIDI_CC_FOOT_PEDAL ->
               <<Call("setFootController", <<v>>, nTG),
                 Call("ControllersRefresh", <<>>, nTG)>>
          [] cc = MIDI_CC_BREATH_CONTROLLER ->
               <<Call("setBreathController", <<v>>, nTG),
                 Call("ControllersRefresh", <<>>, nTG)>>
          [] cc = MIDI_CC_VOLUME -> <<Call("SetVolume", <<v>>, nTG)>>
          [] cc = MIDI_CC_PAN_POSITION -> <<Call("SetPan", <<v>>, nTG)>>
          [] cc = MIDI_CC_BANK_SELECT_MSB ->
               <<Call("BankSelectMSB", <<v>>, nTG)>>
          [] cc = MIDI_CC_BANK_SELECT_LSB ->
               <<Call("BankSelectLSB", <<v>>, nTG)>>
          [] cc = MIDI_CC_BANK_SUSTAIN ->
               <<Call("setSustain", <<IF v >= 64 THEN 1 ELSE 0>>, nTG)>>
          [] cc = MIDI_CC_RESONANCE -> Rescaled("SetResonance", v, nTG)
          [] cc = MIDI_CC_FREQUENCY_CUTOFF -> Rescaled("SetCutoff", v, nTG)
          [] cc = MIDI_CC_REVERB_LEVEL -> Rescaled("SetReverbSend", v, nTG)
          [] cc = MIDI_CC_DETUNE_LEVEL -> DetuneLevel(v, nTG)
          [] cc = MIDI_CC_ALL_SOUND_OFF -> <<Call("panic", <<v>>, nTG)>>
          [] cc = MIDI_CC_ALL_NOTES_OFF -> AllNotesOff(v, nTG, chan, config)
          [] cc = MIDI_CC_NRPN_DATA_LSB ->
               NRPNDataLSB(op, offset, v, nTG, DeviceMap)
          [] OTHER -> <<>>

\* The group select as it would be without the range test.
NRPNParamMSB_Unchecked(op, v) == v

\* m_NRPNop[nTG] after case MIDI_CC_NRPN_PARAM_MSB
NRPNParamMSB(op, v) == IF v <= 6 THEN v ELSE op

\* m_NRPNoffset[nTG] after case MIDI_CC_NRPN_PARAM_LSB
NRPNParamLSB(offset, v) == v

(***************************************************************************)
(* HandleSystemExclusive for slot nTG; sysex_return is what the            *)
(* synthesizer's checkSystemExclusive answered for the frame (the log      *)
(* keeps the answer as the argument of that call).                         *)
(***************************************************************************)
FunctionParameter ==
    << "setMonoMode", "setPitchbendRange", "setPitchbendStep",
       "setPortamentoMode", "setPortamentoGlissando", "setPortamentoTime",
       "setModWheelRange", "setModWheelTarget", "setFootControllerRange",
       "setFootControllerTarget", "setBreathControllerRange",
       "setBreathControllerTarget", "setAftertouchRange",
       "setAftertouchTarget" >>

\* case 64: .. case 77:
IsFunctionParameter(sysex_return) == sysex_return >= 64 /\ sysex_return <= 77

\* if(sysex_return >= 300 && sysex_return < 500)
IsVoiceParameter(sysex_return) == sysex_return >= 300 /\ sysex_return < 500

\* The voice-request range as it would be with its upper end included.
IsVoiceRequest_Inclusive(sysex_return) ==
    sysex_return >= 500 /\ sysex_return <= 600

\* else if(sysex_return >= 500 && sysex_return < 600)
IsVoiceRequest(sysex_return) == sysex_return >= 500 /\ sysex_return < 600

HandleSystemExclusive(m, nTG, sysex_return, DeviceMap) ==
    <<Call("checkSystemExclusive", <<sysex_return>>, nTG)>> \o
    (CASE IsFunctionParameter(sysex_return) ->
            <<Call(FunctionParameter[sysex_return - 63], <<Byte(m, 5)>>, nTG)>>
       [] sysex_return = 100 ->
            <<BufCall("loadVoiceParameters", <<>>, nTG, m)>>
       [] IsVoiceParameter(sysex_return) ->
            LET param == Byte(m, 4) + BitAnd(Byte(m, 3), 3) * 128
            IN  <<Call("setVoiceDataElement", <<param, Byte(m, 5)>>, nTG)>>
                \o (IF param = 134
                    THEN <<Call("notesOff", <<0>>, nTG)>>
                    ELSE <<>>)
       [] IsVoiceRequest(sysex_return) ->
            SendSystemExclusiveVoice(sysex_return - 500, m.cable, nTG,
                                     DeviceMap)
       [] OTHER -> <<>>)

(***************************************************************************)
(* One pass of the loop over the slots (lines 227-562): the calls made for *)
(* slot nTG and the slot's NRPN registers afterwards.                      *)
(***************************************************************************)
\* The Note-On case as it would be without the test for velocity 0.
NoteOnCase_NoZeroVelocity(m, nTG) ==
    IF nLength(m) < 3 THEN <<>>
    ELSE IF Byte(m, 2) <= 127
    THEN <<Call("keydown", <<Byte(m, 1), Byte(m, 2)>>, nTG)>>
    ELSE <<>>

\* case MIDI_NOTE_ON
NoteOnCase(m, nTG) ==
    IF nLength(m) < 3 THEN <<>>
    ELSE IF Byte(m, 2) > 0
    THEN (IF Byte(m, 2) <= 127
          THEN <<Call("keydown", <<Byte(m, 1), Byte(m, 2)>>, nTG)>>
          ELSE <<>>)
    ELSE <<Call("keyup", <<Byte(m, 1)>>, nTG)>>

\* The case as it would be if it did not ask for the performance channel.
ProgramChangeCase_IgnoringPerformance(m, nTG, config) ==
    IF config.RXProgramChange
    THEN <<Call("ProgramChange", <<Byte(m, 1)>>, nTG)>>
    ELSE <<>>

\* case MIDI_PROGRAM_CHANGE of the loop
ProgramChangeCase(m, nTG, config) ==
    IF config.RXProgramChange /\ config.PerformanceSelectChannel = Disabled
    THEN <<Call("ProgramChange", <<Byte(m, 1)>>, nTG)>>
    ELSE <<>>

ChannelVoice(m, nTG, chan, op, offset, config, DeviceMap) ==
    LET t == ucType(m)
    IN  CASE t = MIDI_NOTE_ON -> NoteOnCase(m, nTG)
          [] t = MIDI_NOTE_OFF ->
               IF nLength(m) < 3 THEN <<>>
               ELSE <<Call("keyup", <<Byte(m, 1)>>, nTG)>>
          [] t = MIDI_CHANNEL_AFTERTOUCH ->
               <<Call("setAftertouch", <<Byte(m, 1)>>, nTG),
                 Call("ControllersRefresh", <<>>, nTG)>>
          [] t = MIDI_CONTROL_CHANGE ->
               IF nLength(m) < 3 THEN <<>>
               ELSE ControlChange(m, nTG, chan, op, offset, config, DeviceMap)
          [] t = MIDI_PROGRAM_CHANGE -> ProgramChangeCase(m, nTG, config)
          [] t = MIDI_PITCH_BEND ->
               IF nLength(m) < 3 THEN <<>>
               ELSE <<Call("setPitchbend",
                           <<BitOr(Byte(m, 1), Byte(m, 2) * 128) - 8192>>,
                           nTG)>>
          [] OTHER -> <<>>

\* The test as it would be if SysEx too were routed by the status nibble.
Matches_ByStatusNibble(m, chan) == chan = ucChannel(m) \/ chan = OmniMode

\* Whether the loop body handles the message for a slot assigned to chan.
Matches(m, chan) ==
    IF ucStatus(m) = MIDI_SYSTEM_EXCLUSIVE_BEGIN
    THEN chan = BitAnd(Byte(m, 2), 15) \/ chan = OmniMode
    ELSE chan = ucChannel(m) \/ chan = OmniMode

IsNRPNSelect(m, cc) ==
    /\ ucStatus(m) # MIDI_SYSTEM_EXCLUSIVE_BEGIN
    /\ ucType(m) = MIDI_CONTROL_CHANGE
    /\ nLength(m) >= 3
    /\ Byte(m, 1) = cc

\* The pass as it would be if the NRPN selects were outside the channel test.
ToneGenerator_SelectUnmatched(m, nTG, chan, op, offset, sysex_return, config, DeviceMap) ==
    [calls |-> IF ~Matches(m, chan) THEN <<>>
               ELSE IF ucStatus(m) = MIDI_SYSTEM_EXCLUSIVE_BEGIN
               THEN HandleSystemExclusive(m, nTG, sysex_return, DeviceMap)
               ELSE ChannelVoice(m, nTG, chan, op, offset, config, DeviceMap),
     op |-> IF IsNRPNSelect(m, MIDI_CC_NRPN_PARAM_MSB)
            THEN NRPNParamMSB(op, Byte(m, 2)) ELSE op,
     offset |-> IF IsNRPNSelect(m, MIDI_CC_NRPN_PARAM_LSB)
                THEN NRPNParamLSB(offset, Byte(m, 2)) ELSE offset]

ToneGenerator(m, nTG, chan, op, offset, sysex_return, config, DeviceMap) ==
    IF ~Matches(m, chan)
    THEN [calls |-> <<>>, op |-> op, offset |-> offset]
    ELSE IF ucStatus(m) = MIDI_SYSTEM_EXCLUSIVE_BEGIN
    THEN [calls |-> HandleSystemExclusive(m, nTG, sysex_return, DeviceMap),
          op |-> op, offset |-> offset]
    ELSE [calls |-> ChannelVoice(m, nTG, chan, op, offset, config, DeviceMap),
          op |-> IF IsNRPNSelect(m, MIDI_CC_NRPN_PARAM_MSB)
                 THEN NRPNParamMSB(op, Byte(m, 2)) ELSE op,
          offset |-> IF IsNRPNSelect(m, MIDI_CC_NRPN_PARAM_LSB)
                     THEN NRPNParamLSB(offset, Byte(m, 2)) ELSE offset]

(***************************************************************************)
(* The part of the handler before the loop (lines 184-224).                *)
(***************************************************************************)
\* The test of line 189, evaluated left to right.
IsMasterVolume(m) ==
    /\ Byte(m, 0) = MIDI_SYSTEM_EXCLUSIVE_BEGIN
    /\ Byte(m, 3) = 4
    /\ Byte(m, 4) = 1
    /\ Byte(m, nLength(m) - 1) = MIDI_SYSTEM_EXCLUSIVE_END

\* ((pMessage[5] & 0x7c) & ((pMessage[6] & 0x7c) << 7)) / (1 << 14), an int
MasterVolume(m) ==
    BitAnd(BitAnd(Byte(m, 5), 124), BitAnd(Byte(m, 6), 124) * 128) \div 16384

\* The MiniDexed level handling before the Tone Generators (lines 198-224).
PrePass(m, config) ==
    LET t == ucType(m)
    IN  CASE t \in {MIDI_CONTROL_CHANGE, MIDI_NOTE_OFF, MIDI_NOTE_ON} ->
               IF nLength(m) < 3 THEN <<>>
               ELSE <<Call("UIMIDICmdHandler",
                           <<ucChannel(m), ucStatus(m) - ucChannel(m),
                             Byte(m, 1), Byte(m, 2)>>, NoTG)>>
          [] t = MIDI_PROGRAM_CHANGE ->
               IF /\ config.RXProgramChange
                  /\ config.PerformanceSelectChannel # Disabled
                  /\ \/ ucChannel(m) = config.PerformanceSelectChannel
                     \/ config.PerformanceSelectChannel = OmniMode
               THEN <<Call("ProgramChangePerformance", <<Byte(m, 1)>>, NoTG)>>
               ELSE <<>>
          [] OTHER -> <<>>

(***************************************************************************)
(* The indices of pMessage the statements of the handler read, in the      *)
(* order the code evaluates them (&& stops at the first false operand).    *)
(* What checkSystemExclusive and loadVoiceParameters read is theirs.       *)
(***************************************************************************)
\* The test of line 189.
ReadsMasterVolumeTest(m) ==
    {0} \cup
    (IF Byte(m, 0) # MIDI_SYSTEM_EXCLUSIVE_BEGIN THEN {}
     ELSE {3} \cup
          (IF Byte(m, 3) # 4 THEN {}
           ELSE {4} \cup (IF Byte(m, 4) # 1 THEN {} ELSE {nLength(m) - 1})))

\* Lines 198-224.
ReadsPrePass(m, config) ==
    LET t == ucType(m)
    IN  CASE t \in {MIDI_CONTROL_CHANGE, MIDI_NOTE_OFF, MIDI_NOTE_ON} ->
               IF nLength(m) < 3 THEN {} ELSE {1, 2}
          [] t = MIDI_PROGRAM_CHANGE ->
               IF PrePass(m, config) # <<>> THEN {1} ELSE {}
          [] OTHER -> {}

\* Lines 184-224: ucStatus, the master volume test, then either branch.
ReadsBeforeLoop(m, config) ==
    {0} \cup ReadsMasterVolumeTest(m) \cup
    (IF IsMasterVolume(m) THEN {5, 6} ELSE ReadsPrePass(m, config))

\* HandleSystemExclusive (lines 619-700): the arguments of the setters.
ReadsSystemExclusive(sysex_return) ==
    IF sysex_return \in 64 .. 77 THEN {5}
    ELSE IF sysex_return >= 300 /\ sysex_return < 500 THEN {3, 4, 5}
    ELSE {}

\* case MIDI_CONTROL_CHANGE of the loop (lines 281-534).
ReadsControlChange(m, nTG, chan, op, offset, config, DeviceMap) ==
    IF nLength(m) < 3 THEN {}
    ELSE {1} \cup
         (IF Byte(m, 1) \in {MIDI_CC_NRPN_PARAM_MSB, MIDI_CC_NRPN_PARAM_LSB}
             \/ ControlChange(m, nTG, chan, op, offset, config, DeviceMap)
                    # <<>>
          THEN {2} ELSE {})

\* The switch of lines 244-556, for a slot that listens.
ReadsChannelVoice(m, nTG, chan, op, offset, config, DeviceMap) ==
    LET t == ucType(m)
    IN  CASE t = MIDI_NOTE_ON ->
               IF nLength(m) < 3 THEN {}
               ELSE IF Byte(m, 2) > 127 THEN {2} ELSE {1, 2}
          [] t = MIDI_NOTE_OFF -> IF nLength(m) < 3 THEN {} ELSE {1}
          [] t = MIDI_CHANNEL_AFTERTOUCH -> {1}
          [] t = MIDI_CONTROL_CHANGE ->
               ReadsControlChange(m, nTG, chan, op, offset, config, DeviceMap)
          [] t = MIDI_PROGRAM_CHANGE ->
               IF ProgramChangeCase(m, nTG, config) # <<>> THEN {1} ELSE {}
          [] t = MIDI_PITCH_BEND -> IF nLength(m) < 3 THEN {} ELSE {1, 2}
          [] OTHER -> {}

\* One pass of the loop (lines 229-561).
ReadsToneGenerator(m, nTG, chan, op, offset, code, config, DeviceMap) ==
    IF ucStatus(m) = MIDI_SYSTEM_EXCLUSIVE_BEGIN
    THEN {2} \cup (IF Matches(m, chan)
                   THEN ReadsSystemExclusive(code) ELSE {})
    ELSE IF Matches(m, chan)
    THEN ReadsChannelVoice(m, nTG, chan, op, offset, config, DeviceMap)
    ELSE {}

(***************************************************************************)
(* The state.                                                              *)
(***************************************************************************)
VARIABLES
    m_ChannelMap,     \* per device and slot: the assigned channel
    m_NRPNoffset,     \* per device and slot: the selected NRPN offset
    m_NRPNop,         \* per device and slot: the selected NRPN group
    m_DeviceName,     \* per device: its name, "" until AddDevice
    s_DeviceMap,      \* the registry: a set of <<name, device>>, one per name
    m_MIDISpinLock,   \* per device: whether its spin lock is held
    cfg,              \* what m_pConfig and the synthesizer answer when asked
    queue,            \* per source: a sequence of messages it delivers in order
                      \* (msgs) and the index of the next one (next)
    pc,               \* per source: where its invocation of the handler is
    cur,              \* per source: the device and the message of the invocation
    nTGs,             \* per source: the loop variable nTG
    calls,            \* per source: the calls its invocation has made so far
    reads,            \* per source: the indices of pMessage read so far
    lastCaller,       \* the source whose invocation called the synthesizer last
    aborted           \* an assertion has failed

vars == << m_ChannelMap, m_NRPNoffset, m_NRPNop, m_DeviceName, s_DeviceMap,
           m_MIDISpinLock, cfg, queue, pc, cur, nTGs, calls, reads,
           lastCaller, aborted >>

devVars == << m_ChannelMap, m_NRPNoffset, m_NRPNop, m_DeviceName, s_DeviceMap >>

NoMessage == [buf |-> <<>>, cable |-> 0, beyond |-> <<>>, code |-> 0]
NoInvocation == [dev |-> 0, msg |-> NoMessage]

\* No invocation of the handler is in flight.
Quiescent == \A s \in Srcs : pc[s] = "idle"

\* The constructor, for every device, before any source has delivered anything.
Constructed ==
    /\ m_ChannelMap = [d \in Devs |-> [t \in TGs |-> Disabled]]
    /\ m_NRPNoffset = [d \in Devs |-> [t \in TGs |-> 0]]
    /\ m_NRPNop = [d \in Devs |-> [t \in TGs |-> 0]]
    /\ m_DeviceName = [d \in Devs |-> ""]
    /\ s_DeviceMap = {}
    /\ m_MIDISpinLock = [d \in Devs |-> FALSE]
    /\ pc = [s \in Srcs |-> "idle"]
    /\ cur = [s \in Srcs |-> NoInvocation]
    /\ nTGs = [s \in Srcs |-> 0]
    /\ calls = [s \in Srcs |-> <<>>]
    /\ reads = [s \in Srcs |-> {}]
    /\ lastCaller = 0
    /\ aborted = FALSE

(***************************************************************************)
(* The accessors and the registry.  They are called by the application     *)
(* while no message is being handled.                                      *)
(***************************************************************************)
\* SetChannel as it would be if it wrote slot 0 whatever the index.
SetChannel_Slot0(d, ucChan, nTG) ==
    /\ ~aborted
    /\ Quiescent
    /\ IF nTG \in TGs
       THEN /\ m_ChannelMap' = [m_ChannelMap EXCEPT ![d][0] = ucChan]
            /\ UNCHANGED aborted
       ELSE /\ aborted' = TRUE
            /\ UNCHANGED m_ChannelMap
    /\ UNCHANGED << m_NRPNoffset, m_NRPNop, m_DeviceName, s_DeviceMap,
                    m_MIDISpinLock, cfg, queue, pc, cur, nTGs, calls, reads,
                    lastCaller >>

SetChannel(d, ucChan, nTG) ==
    /\ ~aborted
    /\ Quiescent
    /\ IF nTG \in TGs
       THEN /\ m_ChannelMap' = [m_ChannelMap EXCEPT ![d][nTG] = ucChan]
            /\ UNCHANGED aborted
       ELSE /\ aborted' = TRUE
            /\ UNCHANGED m_ChannelMap
    /\ UNCHANGED << m_NRPNoffset, m_NRPNop, m_DeviceName, s_DeviceMap,
                    m_MIDISpinLock, cfg, queue, pc, cur, nTGs, calls, reads,
                    lastCaller >>

\* The value GetChannel (nTG) returns, for nTG < CConfig::ToneGenerators.
GetChannel(d, nTG) == m_ChannelMap[d][nTG]

\* s_DeviceMap.insert: a name that is a key already is not inserted again.
Insert(DeviceMap, name, d) ==
    IF \E e \in DeviceMap : e[1] = name
    THEN DeviceMap
    ELSE DeviceMap \cup {<<name, d>>}

AddDevice(d, pDeviceName) ==
    /\ ~aborted
    /\ Quiescent
    /\ IF m_DeviceName[d] # "" \/ pDeviceName = ""
       THEN /\ aborted' = TRUE
            /\ UNCHANGED << m_DeviceName, s_DeviceMap >>
       ELSE /\ m_DeviceName' = [m_DeviceName EXCEPT ![d] = pDeviceName]
            /\ s_DeviceMap' = Insert(s_DeviceMap, pDeviceName, d)
            /\ UNCHANGED aborted
    /\ UNCHANGED << m_ChannelMap, m_NRPNoffset, m_NRPNop, m_MIDISpinLock,
                    cfg, queue, pc, cur, nTGs, calls, reads, lastCaller >>

(***************************************************************************)
(* MIDIMessageHandler, called by source s on device d with message m.      *)
(***************************************************************************)
\* s_DeviceMap.find (name): the devices registered under name (at most one).
Find(DeviceMap, name) == {e[2] : e \in {x \in DeviceMap : x[1] = name}}

\* Thru as it would be behind the length gate: short buffers not forwarded.
Thru_AfterLengthGate(d, m) ==
    IF m_DeviceName[d] = cfg.ThruIn /\ nLength(m) >= 2
    THEN [k \in 1 .. Cardinality(Find(s_DeviceMap, cfg.ThruOut)) |->
              ThruSend(SeqOf(Find(s_DeviceMap, cfg.ThruOut))[k], m)]
    ELSE <<>>

\* Handle MIDI Thru (lines 164-174): the Send it makes, if any.
Thru(d, m) ==
    IF m_DeviceName[d] = cfg.ThruIn
    THEN [k \in 1 .. Cardinality(Find(s_DeviceMap, cfg.ThruOut)) |->
              ThruSend(SeqOf(Find(s_DeviceMap, cfg.ThruOut))[k], m)]
    ELSE <<>>

\* The entry as it would be if the length gate let one-byte messages pass.
Entry_GateAt1(s, d, m) ==
    /\ ~aborted
    /\ pc[s] = "idle"
    /\ cur' = [cur EXCEPT ![s] = [dev |-> d, msg |-> m]]
    /\ calls' = [calls EXCEPT ![s] = Thru(d, m)]
    /\ pc' = [pc EXCEPT ![s] = IF nLength(m) < 1 THEN "done" ELSE "acquire"]
    /\ UNCHANGED << devVars, m_MIDISpinLock, cfg, nTGs, reads, lastCaller,
                    aborted >>

\* Lines 102-180: entry, the Thru forward and the length gate.
Entry(s, d, m) ==
    /\ ~aborted
    /\ pc[s] = "idle"
    /\ cur' = [cur EXCEPT ![s] = [dev |-> d, msg |-> m]]
    /\ calls' = [calls EXCEPT ![s] = Thru(d, m)]
    /\ pc' = [pc EXCEPT ![s] = IF nLength(m) < 2 THEN "done" ELSE "acquire"]
    /\ UNCHANGED << devVars, m_MIDISpinLock, cfg, nTGs, reads, lastCaller,
                    aborted >>

\* Source s calls the handler of device d with a message of its choice.
Enter(s, d, m) ==
    /\ queue[s].msgs = <<>>
    /\ Entry(s, d, m)
    /\ UNCHANGED queue

\* Source s calls the handler of device d with the next message of its queue.
Deliver(s, d) ==
    /\ queue[s].next \in DOMAIN queue[s].msgs
    /\ Entry(s, d, queue[s].msgs[queue[s].next])
    /\ queue' = [queue EXCEPT ![s].next = @ + 1]

\* Acquire as it would be if the loop ran after the master volume too.
Acquire_NoBypass(s) ==
    LET d == cur[s].dev
        m == cur[s].msg
        new == IF IsMasterVolume(m)
               THEN <<Call("setMasterVolume", <<MasterVolume(m)>>, NoTG)>>
               ELSE PrePass(m, cfg)
    IN  /\ pc[s] = "acquire"
        /\ ~m_MIDISpinLock[d]
        /\ m_MIDISpinLock' = [m_MIDISpinLock EXCEPT ![d] = TRUE]
        /\ calls' = [calls EXCEPT ![s] = @ \o new]
        /\ lastCaller' = IF new # <<>> THEN s ELSE lastCaller
        /\ reads' = [reads EXCEPT ![s] = @ \cup ReadsBeforeLoop(m, cfg)]
        /\ nTGs' = [nTGs EXCEPT ![s] = 0]
        /\ pc' = [pc EXCEPT ![s] = "loop"]
        /\ UNCHANGED << devVars, cfg, queue, cur, aborted >>

\* Acquire as it would be if the Thru forward came after it.
Acquire_ThruInside(s) ==
    LET d == cur[s].dev
        m == cur[s].msg
        new == Thru(d, m) \o
               (IF IsMasterVolume(m)
                THEN <<Call("setMasterVolume", <<MasterVolume(m)>>, NoTG)>>
                ELSE PrePass(m, cfg))
    IN  /\ pc[s] = "acquire"
        /\ ~m_MIDISpinLock[d]
        /\ m_MIDISpinLock' = [m_MIDISpinLock EXCEPT ![d] = TRUE]
        /\ calls' = [calls EXCEPT ![s] = @ \o new]
        /\ lastCaller' = IF new # <<>> THEN s ELSE lastCaller
        /\ reads' = [reads EXCEPT ![s] = @ \cup ReadsBeforeLoop(m, cfg)]
        /\ nTGs' = [nTGs EXCEPT ![s] = 0]
        /\ pc' = [pc EXCEPT ![s] = IF IsMasterVolume(m) THEN "release"
                                   ELSE "loop"]
        /\ UNCHANGED << devVars, cfg, queue, cur, aborted >>

\* Lines 182-225: m_MIDISpinLock.Acquire (), then the master volume or the
\* handling before the Tone Generators.
Acquire(s) ==
    LET d == cur[s].dev
        m == cur[s].msg
        new == IF IsMasterVolume(m)
               THEN <<Call("setMasterVolume", <<MasterVolume(m)>>, NoTG)>>
               ELSE PrePass(m, cfg)
    IN  /\ pc[s] = "acquire"
        /\ ~m_MIDISpinLock[d]
        /\ m_MIDISpinLock' = [m_MIDISpinLock EXCEPT ![d] = TRUE]
        /\ calls' = [calls EXCEPT ![s] = @ \o new]
        /\ lastCaller' = IF new # <<>> THEN s ELSE lastCaller
        /\ reads' = [reads EXCEPT ![s] = @ \cup ReadsBeforeLoop(m, cfg)]
        /\ nTGs' = [nTGs EXCEPT ![s] = 0]
        /\ pc' = [pc EXCEPT ![s] = IF IsMasterVolume(m) THEN "release"
                                   ELSE "loop"]
        /\ UNCHANGED << devVars, cfg, queue, cur, aborted >>

\* Lines 227-562: one pass of the loop, for slot nTG.
Loop(s) ==
    LET d == cur[s].dev
        m == cur[s].msg
        t == nTGs[s]
        r == ToneGenerator(m, t, m_ChannelMap[d][t], m_NRPNop[d][t],
                           m_NRPNoffset[d][t], m.code, cfg, s_DeviceMap)
    IN  /\ pc[s] = "loop"
        /\ calls' = [calls EXCEPT ![s] = @ \o r.calls]
        /\ lastCaller' = IF r.calls # <<>> THEN s ELSE lastCaller
        /\ m_NRPNop' = [m_NRPNop EXCEPT ![d][t] = r.op]
        /\ m_NRPNoffset' = [m_NRPNoffset EXCEPT ![d][t] = r.offset]
        /\ reads' = [reads EXCEPT ![s] =
                         @ \cup ReadsToneGenerator(m, t, m_ChannelMap[d][t],
                                                   m_NRPNop[d][t],
                                                   m_NRPNoffset[d][t],
                                                   m.code, cfg, s_DeviceMap)]
        /\ nTGs' = [nTGs EXCEPT ![s] = t + 1]
        /\ pc' = [pc EXCEPT ![s] = IF t + 1 < NumTG THEN "loop" ELSE "release"]
        /\ UNCHANGED << m_ChannelMap, m_DeviceName, s_DeviceMap, m_MIDISpinLock,
                        cfg, queue, cur, aborted >>

\* The end of the handler as it would be without the Release.
Release_KeepsLock(s) ==
    /\ pc[s] = "release"
    /\ lastCaller' = IF lastCaller = s THEN 0 ELSE lastCaller
    /\ pc' = [pc EXCEPT ![s] = "done"]
    /\ UNCHANGED << devVars, m_MIDISpinLock, cfg, queue, cur, nTGs, calls,
                    reads, aborted >>

\* Line 564: m_MIDISpinLock.Release ()
Release(s) ==
    /\ pc[s] = "release"
    /\ m_MIDISpinLock' = [m_MIDISpinLock EXCEPT ![cur[s].dev] = FALSE]
    /\ lastCaller' = IF lastCaller = s THEN 0 ELSE lastCaller
    /\ pc' = [pc EXCEPT ![s] = "done"]
    /\ UNCHANGED << devVars, cfg, queue, cur, nTGs, calls, reads, aborted >>

\* Line 565 (and line 179): the handler returns to the driver.
Return(s) ==
    /\ pc[s] = "done"
    /\ pc' = [pc EXCEPT ![s] = "idle"]
    /\ cur' = [cur EXCEPT ![s] = NoInvocation]
    /\ calls' = [calls EXCEPT ![s] = <<>>]
    /\ reads' = [reads EXCEPT ![s] = {}]
    /\ nTGs' = [nTGs EXCEPT ![s] = 0]
    /\ UNCHANGED << devVars, m_MIDISpinLock, cfg, queue, lastCaller, aborted >>

(***************************************************************************)
(* Messages the sources deliver.                                           *)
(***************************************************************************)
Msg(buf, cable) == [buf |-> buf, cable |-> cable, beyond |-> <<>>, code |-> 0]

\* A SysEx frame that checkSystemExclusive classifies as code.
Frame(buf, cable, beyond, code) ==
    [buf |-> buf, cable |-> cable, beyond |-> beyond, code |-> code]

NoteOn(ch, note, vel) == <<MIDI_NOTE_ON * 16 + ch, note, vel>>
ControlChangeMsg(ch, cc, v) == <<MIDI_CONTROL_CHANGE * 16 + ch, cc, v>>
MasterVolumeFrame(lo, hi) ==
    <<MIDI_SYSTEM_EXCLUSIVE_BEGIN, 127, 127, 4, 1, lo, hi,
      MIDI_SYSTEM_EXCLUSIVE_END>>

\* The configuration of a system with MIDI Thru from "in" to "out".
ThruConfig ==
    [ThruIn |-> "in", ThruOut |-> "out", RXProgramChange |-> TRUE,
     IgnoreAllNotesOff |-> FALSE, PerformanceSelectChannel |-> Disabled]

(***************************************************************************)
(* Spec: two sources deliver messages concurrently to two devices that the *)
(* application has named and assigned channels.                            *)
(***************************************************************************)
ConcMsgs ==
    { Msg(<<>>, 0),
      Msg(<<MIDI_TIMING_CLOCK>>, 1),
      Msg(NoteOn(0, 60, 100), 0),
      Msg(ControlChangeMsg(0, MIDI_CC_NRPN_DATA_LSB, 64), 1),
      Msg(MasterVolumeFrame(0, 64), 0) }

ConcChannels == {0}

ConcNames == {"", "in", "out"}

NoQueue == [s \in Srcs |-> [msgs |-> <<>>, next |-> 1]]

Init ==
    /\ Constructed
    /\ cfg = ThruConfig
    /\ queue = NoQueue

Next ==
    \/ \E d \in Devs, c \in ConcChannels, t \in 0 .. NumTG : SetChannel(d, c, t)
    \/ \E d \in Devs, n \in ConcNames : AddDevice(d, n)
    \/ \E s \in Srcs, d \in Devs, m \in ConcMsgs : Enter(s, d, m)
    \/ \E s \in Srcs : Acquire(s)
    \/ \E s \in Srcs : Loop(s)
    \/ \E s \in Srcs : Release(s)
    \/ \E s \in Srcs : Return(s)

Spec == Init /\ [][Next]_vars

(***************************************************************************)
(* The steps of one invocation after its entry.                            *)
(***************************************************************************)
Handler(s) == Acquire(s) \/ Loop(s) \/ Release(s) \/ Return(s)

(***************************************************************************)
(* SpecChan: the application assigns channels, every value of TChannel on  *)
(* device 1, with valid and invalid slot indices, and channel 0 on slot 0  *)
(* of device 2.                                                            *)
(***************************************************************************)
AllChannels == (0 .. 15) \cup {OmniMode, Disabled}

NextChan ==
    \/ \E c \in AllChannels, t \in 0 .. NumTG : SetChannel(1, c, t)
    \/ SetChannel(2, 0, 0)

SpecChan == Init /\ [][NextChan]_vars

(***************************************************************************)
(* SpecNote: one source delivers Note-On and Note-Off messages, velocity   *)
(* bytes beyond 127 included, to a device whose slots are on channel 0,    *)
(* OmniMode or Disabled.                                                   *)
(***************************************************************************)
NoteChannels == {0, OmniMode, Disabled}

Velocities == {0, 1, 100, 127, 128, 255}

NoteMsgs ==
    { Msg(NoteOn(ch, 60, vel), 0) : ch \in {0, 1}, vel \in Velocities }
    \cup { Msg(<<MIDI_NOTE_ON * 16, 60>>, 0),
           Msg(<<MIDI_NOTE_OFF * 16, 60, 64>>, 0) }

NextNote ==
    \/ \E c \in NoteChannels, t \in TGs : SetChannel(1, c, t)
    \/ \E m \in NoteMsgs : Enter(1, 1, m)
    \/ Handler(1)

SpecNote == Init /\ [][NextNote]_vars

(***************************************************************************)
(* SpecNRPN: a controller sends CC 99 = g, CC 98 = o, CC 38 = d on channel *)
(* 0 to device 1, for every group g and every offset o; the application    *)
(* has registered both devices and assigned the slots of device 1 before.  *)
(***************************************************************************)
Groups == 0 .. 6

Offsets == 0 .. 127

DataValues == {0, 64, 127}

NRPNChannels == {0, 1, OmniMode}

NRPNSequence(g, o, d) ==
    << Msg(ControlChangeMsg(0, MIDI_CC_NRPN_PARAM_MSB, g), 0),
       Msg(ControlChangeMsg(0, MIDI_CC_NRPN_PARAM_LSB, o), 0),
       Msg(ControlChangeMsg(0, MIDI_CC_NRPN_DATA_LSB, d), 0) >>

InitNRPN ==
    /\ m_ChannelMap \in
          { [d \in Devs |-> IF d = 1 THEN cm ELSE [t \in TGs |-> Disabled]] :
               cm \in [TGs -> NRPNChannels] }
    /\ m_NRPNoffset = [d \in Devs |-> [t \in TGs |-> 0]]
    /\ m_NRPNop = [d \in Devs |-> [t \in TGs |-> 0]]
    /\ m_DeviceName = [d \in Devs |-> IF d = 1 THEN "in" ELSE "out"]
    /\ s_DeviceMap = {<<"in", 1>>, <<"out", 2>>}
    /\ m_MIDISpinLock = [d \in Devs |-> FALSE]
    /\ cfg = [ThruConfig EXCEPT !.ThruIn = "none"]
    /\ queue \in
          { [s \in Srcs |-> IF s = 1
                            THEN [msgs |-> NRPNSequence(g, o, d), next |-> 1]
                            ELSE [msgs |-> <<>>, next |-> 1]] :
               g \in Groups, o \in Offsets, d \in DataValues }
    /\ pc = [s \in Srcs |-> "idle"]
    /\ cur = [s \in Srcs |-> NoInvocation]
    /\ nTGs = [s \in Srcs |-> 0]
    /\ calls = [s \in Srcs |-> <<>>]
    /\ reads = [s \in Srcs |-> {}]
    /\ lastCaller = 0
    /\ aborted = FALSE

NextNRPN ==
    \/ Deliver(1, 1)
    \/ Handler(1)

SpecNRPN == InitNRPN /\ [][NextNRPN]_vars

(***************************************************************************)
(* SpecSel: one source delivers NRPN selects and data entries in any       *)
(* order, group values beyond 6 included.                                  *)
(***************************************************************************)
SelChannels == {0, OmniMode}

SelMsgs ==
    { Msg(ControlChangeMsg(0, MIDI_CC_NRPN_PARAM_MSB, v), 0) :
         v \in {3, 6, 7, 127} }
    \cup { Msg(ControlChangeMsg(0, MIDI_CC_NRPN_PARAM_LSB, v), 0) :
              v \in {21, 127} }
    \cup { Msg(ControlChangeMsg(0, MIDI_CC_NRPN_DATA_LSB, 5), 0) }

NextSel ==
    \/ \E c \in SelChannels, t \in TGs : SetChannel(1, c, t)
    \/ \E m \in SelMsgs : Enter(1, 1, m)
    \/ Handler(1)

SpecSel == Init /\ [][NextSel]_vars

(***************************************************************************)
(* SpecSysEx: one source delivers SysEx frames on port 0 or 1 to device 1; *)
(* the frames are a parameter change, a dump request (shorter than the     *)
(* indices the handler reads) and the master volume, each with every       *)
(* answer of SysExCodes.                                                   *)
(***************************************************************************)
\* Answers of checkSystemExclusive: the error codes, the function parameters,
\* the voice upload, the bank upload, the voice parameters, the voice
\* requests, and values next to and between the ranges.
SysExCodes ==
    { 0 - 12, 0 - 11, 0 - 10, 0 - 9, 0 - 1, 0, 63, 64, 77, 78, 100, 150, 200,
      299, 300, 499, 500, 599, 600 }

\* F0 43 1n 01 06 vv F7: voice parameter 134 on channel n
ParameterChange(n, v) ==
    <<MIDI_SYSTEM_EXCLUSIVE_BEGIN, 67, 16 + n, 1, 6, v,
      MIDI_SYSTEM_EXCLUSIVE_END>>

\* F0 43 2n 00 F7: dump request on channel n
DumpRequest(n) ==
    <<MIDI_SYSTEM_EXCLUSIVE_BEGIN, 67, 32 + n, 0, MIDI_SYSTEM_EXCLUSIVE_END>>

\* What lies behind a five-byte buffer.
Behind == <<0, 0, 0, 0, 0, 9, 9>>

SysExMsgs ==
    { Frame(ParameterChange(0, 5), 0, <<>>, c) : c \in SysExCodes }
    \cup { Frame(DumpRequest(0), cable, Behind, c) :
              cable \in {0, 1}, c \in SysExCodes }
    \cup { Frame(DumpRequest(1), 1, Behind, 500),
           Msg(MasterVolumeFrame(0, 64), 0) }

SysExChannels == {0, OmniMode}

\* A frame with the answer c, then a voice parameter change.
SysExSequence(c) ==
    << Frame(DumpRequest(0), 0, Behind, c),
       Frame(ParameterChange(0, 5), 0, <<>>, 300) >>

\* The source delivers frames of its choice, or one of the sequences.
InitSysEx ==
    /\ Constructed
    /\ cfg = ThruConfig
    /\ queue \in
          {NoQueue} \cup
          { [s \in Srcs |-> IF s = 1
                            THEN [msgs |-> SysExSequence(c), next |-> 1]
                            ELSE [msgs |-> <<>>, next |-> 1]] :
               c \in SysExCodes }

NextSysEx ==
    \/ \E c \in SysExChannels, t \in TGs : SetChannel(1, c, t)
    \/ AddDevice(1, "in")
    \/ AddDevice(2, "out")
    \/ \E m \in SysExMsgs : Enter(1, 1, m)
    \/ Deliver(1, 1)
    \/ Handler(1)

SpecSysEx == InitSysEx /\ [][NextSysEx]_vars

(***************************************************************************)
(* SpecCC: one source delivers Control Change 94, 71, 74 and 91 with every *)
(* value.                                                                  *)
(***************************************************************************)
CCChannels == {0, OmniMode}

RescaledCCs ==
    {MIDI_CC_RESONANCE, MIDI_CC_FREQUENCY_CUTOFF, MIDI_CC_REVERB_LEVEL}

CCMsgs ==
    { Msg(ControlChangeMsg(0, cc, v), 0) :
         cc \in {MIDI_CC_DETUNE_LEVEL} \cup RescaledCCs, v \in 0 .. 127 }

NextCC ==
    \/ \E c \in CCChannels, t \in TGs : SetChannel(1, c, t)
    \/ \E m \in CCMsgs : Enter(1, 1, m)
    \/ Handler(1)

SpecCC == Init /\ [][NextCC]_vars

(***************************************************************************)
(* SpecLock: two sources deliver, to either of two configured devices,     *)
(* messages that take every path through the handler: shorter than 2       *)
(* bytes, the master volume, 2-byte and 3-byte channel messages, an NRPN   *)
(* data entry and SysEx frames.  A source that has entered the handler     *)
(* goes on (weak fairness of the steps that need nothing), and a source    *)
(* spinning on a lock that is free again and again gets it at some point   *)
(* (strong fairness of Acquire); no source is obliged to deliver anything. *)
(***************************************************************************)
LockMsgs ==
    { Msg(<<>>, 0),
      Msg(<<MIDI_TIMING_CLOCK>>, 0),
      Msg(MasterVolumeFrame(0, 64), 0),
      Msg(NoteOn(0, 60, 100), 0),
      Msg(<<MIDI_NOTE_ON * 16, 60>>, 0),
      Msg(<<MIDI_PROGRAM_CHANGE * 16, 5>>, 0),
      Msg(ControlChangeMsg(0, MIDI_CC_NRPN_DATA_LSB, 64), 0),
      Frame(ParameterChange(0, 5), 0, <<>>, 300),
      Frame(DumpRequest(0), 1, Behind, 500) }

\* Slot 0 on channel 0, slot 1 on OmniMode, any other slot Disabled.
LockChannels ==
    [t \in TGs |-> IF t = 0 THEN 0 ELSE IF t = 1 THEN OmniMode ELSE Disabled]

InitLock ==
    /\ m_ChannelMap = [d \in Devs |-> LockChannels]
    /\ m_NRPNoffset = [d \in Devs |-> [t \in TGs |-> 0]]
    /\ m_NRPNop = [d \in Devs |-> [t \in TGs |-> 0]]
    /\ m_DeviceName = [d \in Devs |-> IF d = 1 THEN "in" ELSE "out"]
    /\ s_DeviceMap = {<<"in", 1>>, <<"out", 2>>}
    /\ m_MIDISpinLock = [d \in Devs |-> FALSE]
    /\ cfg = ThruConfig
    /\ queue = NoQueue
    /\ pc = [s \in Srcs |-> "idle"]
    /\ cur = [s \in Srcs |-> NoInvocation]
    /\ nTGs = [s \in Srcs |-> 0]
    /\ calls = [s \in Srcs |-> <<>>]
    /\ reads = [s \in Srcs |-> {}]
    /\ lastCaller = 0
    /\ aborted = FALSE

NextLock ==
    \/ \E s \in Srcs, d \in Devs, m \in LockMsgs : Enter(s, d, m)
    \/ \E s \in Srcs : Acquire(s)
    \/ \E s \in Srcs : Loop(s)
    \/ \E s \in Srcs : Release(s)
    \/ \E s \in Srcs : Return(s)

FairLock ==
    \A s \in Srcs :
       /\ SF_vars(Acquire(s))
       /\ WF_vars(Loop(s))
       /\ WF_vars(Release(s))
       /\ WF_vars(Return(s))

SpecLock == InitLock /\ [][NextLock]_vars /\ FairLock

(***************************************************************************)
(* SpecVol: one source delivers universal master volume frames with        *)
(* several values of the two data bytes, the shortest frame the test of    *)
(* line 189 accepts, and a frame that differs from them in byte 4 only, to *)
(* the Thru input device, whose slots are Disabled, on channel 15 (the     *)
(* low nibble of byte 2 of the frames) or Omni.                            *)
(***************************************************************************)
VolFields == {0, 4, 64, 124, 127}

VolChannels == {15, OmniMode}

ShortestVolumeFrame ==
    <<MIDI_SYSTEM_EXCLUSIVE_BEGIN, 127, 127, 4, 1, MIDI_SYSTEM_EXCLUSIVE_END>>

OtherUniversalFrame ==
    <<MIDI_SYSTEM_EXCLUSIVE_BEGIN, 127, 127, 4, 2, 0, 64,
      MIDI_SYSTEM_EXCLUSIVE_END>>

VolMsgs ==
    { Msg(MasterVolumeFrame(lo, hi), 0) : lo \in VolFields, hi \in VolFields }
    \cup { Frame(ShortestVolumeFrame, 0, <<0, 0, 0, 0, 0, 0, 64>>, 0),
           Frame(OtherUniversalFrame, 0, <<>>, 0 - 2) }

InitVol ==
    /\ m_ChannelMap = [d \in Devs |-> [t \in TGs |-> Disabled]]
    /\ m_NRPNoffset = [d \in Devs |-> [t \in TGs |-> 0]]
    /\ m_NRPNop = [d \in Devs |-> [t \in TGs |-> 0]]
    /\ m_DeviceName = [d \in Devs |-> IF d = 1 THEN "in" ELSE "out"]
    /\ s_DeviceMap = {<<"in", 1>>, <<"out", 2>>}
    /\ m_MIDISpinLock = [d \in Devs |-> FALSE]
    /\ cfg = ThruConfig
    /\ queue = NoQueue
    /\ pc = [s \in Srcs |-> "idle"]
    /\ cur = [s \in Srcs |-> NoInvocation]
    /\ nTGs = [s \in Srcs |-> 0]
    /\ calls = [s \in Srcs |-> <<>>]
    /\ reads = [s \in Srcs |-> {}]
    /\ lastCaller = 0
    /\ aborted = FALSE

NextVol ==
    \/ \E c \in VolChannels, t \in TGs : SetChannel(1, c, t)
    \/ \E m \in VolMsgs : Enter(1, 1, m)
    \/ Handler(1)

SpecVol == InitVol /\ [][NextVol]_vars

(***************************************************************************)
(* SpecCfg: the configuration is any combination of program change         *)
(* reception, the ignore option for All Notes Off and a performance select *)
(* channel that is Disabled, channel 0 or Omni; one source delivers        *)
(* Program Change and All Notes Off messages on channels 0 and 1 to a      *)
(* device whose slots are Disabled, on channel 0 or Omni.                  *)
(***************************************************************************)
Configs ==
    { [ThruIn |-> "in", ThruOut |-> "out", RXProgramChange |-> rx,
       IgnoreAllNotesOff |-> ign, PerformanceSelectChannel |-> perf] :
         rx \in BOOLEAN, ign \in BOOLEAN, perf \in {Disabled, 0, OmniMode} }

CfgChannels == {0, OmniMode}

CfgMsgs ==
    { Msg(<<MIDI_PROGRAM_CHANGE * 16 + ch, 5>>, 0) : ch \in {0, 1} }
    \cup { Msg(ControlChangeMsg(ch, MIDI_CC_ALL_NOTES_OFF, 0), 0) :
               ch \in {0, 1} }

InitCfg ==
    /\ m_ChannelMap = [d \in Devs |-> [t \in TGs |-> Disabled]]
    /\ m_NRPNoffset = [d \in Devs |-> [t \in TGs |-> 0]]
    /\ m_NRPNop = [d \in Devs |-> [t \in TGs |-> 0]]
    /\ m_DeviceName = [d \in Devs |-> IF d = 1 THEN "in" ELSE "out"]
    /\ s_DeviceMap = {<<"in", 1>>, <<"out", 2>>}
    /\ m_MIDISpinLock = [d \in Devs |-> FALSE]
    /\ cfg \in Configs
    /\ queue = NoQueue
    /\ pc = [s \in Srcs |-> "idle"]
    /\ cur = [s \in Srcs |-> NoInvocation]
    /\ nTGs = [s \in Srcs |-> 0]
    /\ calls = [s \in Srcs |-> <<>>]
    /\ reads = [s \in Srcs |-> {}]
    /\ lastCaller = 0
    /\ aborted = FALSE

NextCfg ==
    \/ \E c \in CfgChannels, t \in TGs : SetChannel(1, c, t)
    \/ \E m \in CfgMsgs : Enter(1, 1, m)
    \/ Handler(1)

SpecCfg == InitCfg /\ [][NextCfg]_vars

(***************************************************************************)
(* SpecRoute: one source delivers, on channels 0 and 1, a Note On, a       *)
(* Channel Aftertouch, the two NRPN selects, a SysEx voice parameter       *)
(* change and a SysEx dump request to a device whose slots are Disabled,   *)
(* on channel 0, on channel 1 or Omni.                                     *)
(***************************************************************************)
RouteChannels == {0, 1, OmniMode}

RouteMsgs ==
    UNION { { Msg(NoteOn(ch, 60, 100), 0),
              Msg(<<MIDI_CHANNEL_AFTERTOUCH * 16 + ch, 40>>, 0),
              Msg(ControlChangeMsg(ch, MIDI_CC_NRPN_PARAM_MSB, 3), 0),
              Msg(ControlChangeMsg(ch, MIDI_CC_NRPN_PARAM_LSB, 17), 0),
              Frame(ParameterChange(ch, 5), 0, <<>>, 300),
              Frame(DumpRequest(ch), 0, Behind, 500) } : ch \in {0, 1} }

NextRoute ==
    \/ \E c \in RouteChannels, t \in TGs : SetChannel(1, c, t)
    \/ \E m \in RouteMsgs : Enter(1, 1, m)
    \/ Handler(1)

SpecRoute == InitVol /\ [][NextRoute]_vars

(***************************************************************************)
(* SpecShort: one source delivers the shortest messages that pass the      *)
(* length gate: two- and three-byte buffers that begin with 0xF0, and      *)
(* two-byte channel messages, next to a three-byte Note On.  What lies     *)
(* behind a buffer that begins with 0xF0 is not the caller's to choose: it *)
(* is either zeroes or happens to hold 04 01 at the indices 3 and 4.       *)
(***************************************************************************)
BehindShort == { <<0, 0, 0, 0, 0, 0, 0>>, <<0, 0, 0, 4, 1, 0, 64>> }

ShortMsgs ==
    { Frame(<<MIDI_SYSTEM_EXCLUSIVE_BEGIN, MIDI_SYSTEM_EXCLUSIVE_END>>,
            0, b, 0 - 11) : b \in BehindShort }
    \cup { Frame(<<MIDI_SYSTEM_EXCLUSIVE_BEGIN, 67, 32>>, 0, b, 0 - 1) :
               b \in BehindShort }
    \cup { Msg(<<MIDI_CHANNEL_AFTERTOUCH * 16, 40>>, 0),
           Msg(<<MIDI_PROGRAM_CHANGE * 16, 5>>, 0),
           Msg(<<MIDI_NOTE_ON * 16, 60>>, 0),
           Msg(<<MIDI_CONTROL_CHANGE * 16, MIDI_CC_VOLUME>>, 0),
           Msg(NoteOn(0, 60, 100), 0) }

ShortChannels == {0, OmniMode}

NextShort ==
    \/ \E c \in ShortChannels, t \in TGs : SetChannel(1, c, t)
    \/ \E m \in ShortMsgs : Enter(1, 1, m)
    \/ Handler(1)

SpecShort == InitVol /\ [][NextShort]_vars

(***************************************************************************)
(* SpecData: under any configuration, one source delivers on channel 0, in *)
(* any order, NRPN group selects (3, 6, and 7, which is refused), offset   *)
(* selects (21 and 0) and data entries to a device whose slots are         *)
(* Disabled, on channel 0, on channel 1 or Omni.                           *)
(***************************************************************************)
DataChannels == {Disabled, 0, 1, OmniMode}

DataMsgs ==
    { Msg(ControlChangeMsg(0, MIDI_CC_NRPN_PARAM_MSB, g), 0) : g \in {3, 6, 7} }
    \cup { Msg(ControlChangeMsg(0, MIDI_CC_NRPN_PARAM_LSB, o), 0) :
               o \in {MIDI_NRPN_PROGRAM_CHANGE, 0} }
    \cup { Msg(ControlChangeMsg(0, MIDI_CC_NRPN_DATA_LSB, v), 0) :
               v \in {5, 100} }

InitData ==
    /\ m_ChannelMap \in
          { [d \in Devs |-> IF d = 1 THEN cm ELSE [t \in TGs |-> Disabled]] :
               cm \in [TGs -> DataChannels] }
    /\ m_NRPNoffset = [d \in Devs |-> [t \in TGs |-> 0]]
    /\ m_NRPNop = [d \in Devs |-> [t \in TGs |-> 0]]
    /\ m_DeviceName = [d \in Devs |-> IF d = 1 THEN "in" ELSE "out"]
    /\ s_DeviceMap = {<<"in", 1>>, <<"out", 2>>}
    /\ m_MIDISpinLock = [d \in Devs |-> FALSE]
    /\ cfg \in Configs
    /\ queue = NoQueue
    /\ pc = [s \in Srcs |-> "idle"]
    /\ cur = [s \in Srcs |-> NoInvocation]
    /\ nTGs = [s \in Srcs |-> 0]
    /\ calls = [s \in Srcs |-> <<>>]
    /\ reads = [s \in Srcs |-> {}]
    /\ lastCaller = 0
    /\ aborted = FALSE

NextData ==
    \/ \E m \in DataMsgs : Enter(1, 1, m)
    \/ Handler(1)

SpecData == InitData /\ [][NextData]_vars

(***************************************************************************)
(* SpecShare: two sources deliver to either of two devices.  Device 1 has  *)
(* slot 0 on channel 0 and slot 1 Omni, device 2 has slot 0 on channel 1;  *)
(* the other slots are Disabled.  Source 1 selects group 3 and offset 0 on *)
(* channel 0 and sends data entries and a Note On; source 2 selects offset *)
(* 21 on channel 0 or on channel 1, and group 7, which is refused.         *)
(***************************************************************************)
ShareChannels ==
    [d \in Devs |->
       [t \in TGs |-> IF d = 1 /\ t = 0 THEN 0
                      ELSE IF d = 1 /\ t = 1 THEN OmniMode
                      ELSE IF d = 2 /\ t = 0 THEN 1
                      ELSE Disabled]]

ShareMsgs ==
    [s \in Srcs |->
       IF s = 1
       THEN { Msg(ControlChangeMsg(0, MIDI_CC_NRPN_PARAM_MSB, 3), 0),
              Msg(ControlChangeMsg(0, MIDI_CC_NRPN_PARAM_LSB, 0), 0),
              Msg(ControlChangeMsg(0, MIDI_CC_NRPN_DATA_LSB, 5), 0),
              Msg(NoteOn(0, 60, 100), 0) }
       ELSE { Msg(ControlChangeMsg(0, MIDI_CC_NRPN_PARAM_LSB,
                                   MIDI_NRPN_PROGRAM_CHANGE), 0),
              Msg(ControlChangeMsg(1, MIDI_CC_NRPN_PARAM_LSB,
                                   MIDI_NRPN_PROGRAM_CHANGE), 0),
              Msg(ControlChangeMsg(0, MIDI_CC_NRPN_PARAM_MSB, 7), 0) }]

InitShare ==
    /\ m_ChannelMap = ShareChannels
    /\ m_NRPNoffset = [d \in Devs |-> [t \in TGs |-> 0]]
    /\ m_NRPNop = [d \in Devs |-> [t \in TGs |-> 0]]
    /\ m_DeviceName = [d \in Devs |-> IF d = 1 THEN "in" ELSE "out"]
    /\ s_DeviceMap = {<<"in", 1>>, <<"out", 2>>}
    /\ m_MIDISpinLock = [d \in Devs |-> FALSE]
    /\ cfg = [ThruConfig EXCEPT !.ThruIn = "none"]
    /\ queue = NoQueue
    /\ pc = [s \in Srcs |-> "idle"]
    /\ cur = [s \in Srcs |-> NoInvocation]
    /\ nTGs = [s \in Srcs |-> 0]
    /\ calls = [s \in Srcs |-> <<>>]
    /\ reads = [s \in Srcs |-> {}]
    /\ lastCaller = 0
    /\ aborted = FALSE

NextShare ==
    \/ \E s \in Srcs, d \in Devs : \E m \in ShareMsgs[s] : Enter(s, d, m)
    \/ \E s \in Srcs : Handler(s)

SpecShare == InitShare /\ [][NextShare]_vars

(***************************************************************************)
(* Properties.                                                             *)
(***************************************************************************)
\* The calls of a log that go to the synthesizer or the user interface.
SynthCalls(cs) == {i \in DOMAIN cs : cs[i].fn # "Send"}

\* The Sends of a log that pass the received buffer on.
ThruSends(cs) == {i \in DOMAIN cs : cs[i].fn = "Send" /\ cs[i].ptr = "pMessage"}

\* C1: the synthesizer and UI calls an invocation makes between Acquire and
\* Release are never interleaved with those of another invocation, whatever
\* the devices of the two invocations: whenever an invocation that has
\* already called makes a further call, no other invocation has called since.
C1_NoInterleaving ==
    [][\A s \in Srcs :
          (/\ Cardinality(SynthCalls(calls'[s])) > Cardinality(SynthCalls(calls[s]))
           /\ SynthCalls(calls[s]) # {})
          => lastCaller = s]_vars

\* C2: when the receiving device's name is the Thru-input name and the
\* Thru-output name is registered, an invocation sends the received buffer
\* (same bytes, same length, same port) to the Thru-output device exactly
\* once, first of all its calls, for every length and every content.
C2_ThruForward ==
    \A s \in Srcs :
       pc[s] # "idle" =>
          LET d == cur[s].dev
              m == cur[s].msg
          IN  (/\ m_DeviceName[d] = cfg.ThruIn
               /\ Find(s_DeviceMap, cfg.ThruOut) # {})
              => /\ Cardinality(ThruSends(calls[s])) = 1
                 /\ \A out \in Find(s_DeviceMap, cfg.ThruOut) :
                       calls[s][1] =
                          [fn |-> "Send", args |-> <<out, Len(m.buf), m.cable>>,
                           tg |-> NoTG, ptr |-> "pMessage", bytes |-> m.buf]

\* C2 witness: an invocation with an empty buffer has returned after
\* forwarding it.
C2_Witness ==
    \E s \in Srcs :
       /\ pc[s] = "done"
       /\ cur[s].msg.buf = <<>>
       /\ m_DeviceName[cur[s].dev] = cfg.ThruIn
       /\ Find(s_DeviceMap, cfg.ThruOut) # {}
       /\ Len(calls[s]) = 1

(***************************************************************************)
(* What the properties below read off an invocation and its call log.      *)
(***************************************************************************)
\* The slots of device d that listen to channel ch.
Listening(d, ch) ==
    {t \in TGs : m_ChannelMap[d][t] = ch \/ m_ChannelMap[d][t] = OmniMode}

\* The calls of a log to fn for slot t.
CallsTo(cs, fn, t) == {i \in DOMAIN cs : cs[i].fn = fn /\ cs[i].tg = t}

\* The voice-dump frames of a log for slot t.
Dumps(cs, t) ==
    {i \in DOMAIN cs :
        cs[i].fn = "Send" /\ cs[i].ptr = "voicedump" /\ cs[i].tg = t}

\* The parameter setters of a log for slot t.
Setters(cs, t) ==
    {i \in DOMAIN cs :
        /\ cs[i].tg = t
        /\ cs[i].fn \notin {"Send", "getSysExVoiceDump", "ProgramChange"}}

\* A three-byte channel message of the given type.
IsChannelMsg(m, type) == Len(m.buf) = 3 /\ m.buf[1] \div 16 = type

\* A three-byte Control Change for controller cc.
IsCC(m, cc) == IsChannelMsg(m, MIDI_CONTROL_CHANGE) /\ m.buf[2] = cc

\* A SysEx frame that goes to the slots (not the master volume).
IsSlotSysEx(m) ==
    /\ Len(m.buf) >= 2
    /\ m.buf[1] = MIDI_SYSTEM_EXCLUSIVE_BEGIN
    /\ ~IsMasterVolume(m)

\* Source s has delivered its whole sequence and the last handler has returned.
SequenceDone(s) ==
    /\ pc[s] = "done"
    /\ queue[s].msgs # <<>>
    /\ queue[s].next = Len(queue[s].msgs) + 1

\* The setter the tables give for group g and offset o.
Addressed(g, o) == IF g < 6 THEN OpParams[o + 1] ELSE VoiceParams[o + 1]

\* The offsets that are a parameter of group g.
IsParameter(g, o) == IF g < 6 THEN o <= 20 ELSE o <= 18

\* C3 as stated: after CC99 = g, CC98 = o, CC38 = d, for every listening
\* slot exactly one setter has been called and every registered device has
\* been sent exactly one voice-dump frame, for every g in 0..6 and o in 0..127.
C3_AnyOffset ==
    \A s \in Srcs :
       SequenceDone(s) =>
          \A t \in Listening(cur[s].dev, 0) :
             /\ Cardinality(Setters(calls[s], t)) = 1
             /\ \A e \in s_DeviceMap :
                   Cardinality({i \in Dumps(calls[s], t) :
                                   calls[s][i].args[1] = e[2]}) = 1

\* C3 amended: after CC99 = g, CC98 = o, CC38 = d, for every listening slot:
\* if o is 21, ProgramChange(d) is called once, no setter is called and no
\* dump is sent; otherwise every registered device is sent exactly one
\* voice-dump frame, and if o is the offset of a parameter of group g exactly
\* one setter is called, the one addressed by (g, o), for operator g when
\* g < 6, with the value floor(d * ceiling / 127), else no setter is called.
C3_NRPNSequence ==
    \A s \in Srcs :
       SequenceDone(s) =>
          LET g == queue[s].msgs[1].buf[3]
              o == queue[s].msgs[2].buf[3]
              v == queue[s].msgs[3].buf[3]
              cs == calls[s]
          IN  \A t \in Listening(cur[s].dev, 0) :
                 IF o = 21
                 THEN /\ Setters(cs, t) = {}
                      /\ Dumps(cs, t) = {}
                      /\ Cardinality(CallsTo(cs, "ProgramChange", t)) = 1
                      /\ \A i \in CallsTo(cs, "ProgramChange", t) :
                            cs[i].args = <<v>>
                 ELSE /\ \A e \in s_DeviceMap :
                            Cardinality({i \in Dumps(cs, t) :
                                            cs[i].args[1] = e[2]}) = 1
                      /\ CallsTo(cs, "ProgramChange", t) = {}
                      /\ IF IsParameter(g, o)
                         THEN /\ Cardinality(Setters(cs, t)) = 1
                              /\ \A i \in Setters(cs, t) :
                                    /\ cs[i].fn = Addressed(g, o).fn
                                    /\ cs[i].args[Len(cs[i].args)] =
                                          (v * Addressed(g, o).max) \div 127
                                    /\ g < 6 => cs[i].args[1] = g
                         ELSE Setters(cs, t) = {}

\* C3 witness: the sequence CC99 = 6, CC98 = 18, CC38 = 127 has been handled
\* and setTranspose(48) has been called for a listening slot.
C3_Witness ==
    \E s \in Srcs :
       /\ SequenceDone(s)
       /\ queue[s].msgs = NRPNSequence(6, 18, 127)
       /\ \E t \in Listening(cur[s].dev, 0) :
             \E i \in Setters(calls[s], t) :
                calls[s][i].fn = "setTranspose" /\ calls[s][i].args = <<48>>

\* C4 as stated: for a three-byte Note-On and every listening slot, velocity
\* > 0 yields exactly one keydown(note, velocity) and no keyup, velocity 0
\* yields exactly one keyup(note) and no keydown.
C4_AnyVelocity ==
    \A s \in Srcs :
       (pc[s] = "done" /\ IsChannelMsg(cur[s].msg, MIDI_NOTE_ON)) =>
          LET b == cur[s].msg.buf
              cs == calls[s]
          IN  \A t \in Listening(cur[s].dev, b[1] % 16) :
                 /\ b[3] > 0 =>
                       /\ Cardinality(CallsTo(cs, "keydown", t)) = 1
                       /\ \A i \in CallsTo(cs, "keydown", t) :
                             cs[i].args = <<b[2], b[3]>>
                       /\ CallsTo(cs, "keyup", t) = {}
                 /\ b[3] = 0 =>
                       /\ Cardinality(CallsTo(cs, "keyup", t)) = 1
                       /\ \A i \in CallsTo(cs, "keyup", t) :
                             cs[i].args = <<b[2]>>
                       /\ CallsTo(cs, "keydown", t) = {}

\* C4 amended: for a three-byte Note-On and every listening slot, a velocity
\* in 1..127 yields exactly one keydown(note, velocity) and no keyup, velocity
\* 0 yields exactly one keyup(note) and no keydown, and a velocity byte above
\* 127 yields neither.
C4_NoteOn ==
    \A s \in Srcs :
       (pc[s] = "done" /\ IsChannelMsg(cur[s].msg, MIDI_NOTE_ON)) =>
          LET b == cur[s].msg.buf
              cs == calls[s]
          IN  \A t \in Listening(cur[s].dev, b[1] % 16) :
                 /\ b[3] \in 1 .. 127 =>
                       /\ Cardinality(CallsTo(cs, "keydown", t)) = 1
                       /\ \A i \in CallsTo(cs, "keydown", t) :
                             cs[i].args = <<b[2], b[3]>>
                       /\ CallsTo(cs, "keyup", t) = {}
                 /\ b[3] = 0 =>
                       /\ Cardinality(CallsTo(cs, "keyup", t)) = 1
                       /\ \A i \in CallsTo(cs, "keyup", t) :
                             cs[i].args = <<b[2]>>
                       /\ CallsTo(cs, "keydown", t) = {}
                 /\ b[3] > 127 =>
                       /\ CallsTo(cs, "keydown", t) = {}
                       /\ CallsTo(cs, "keyup", t) = {}

\* C4 witness: a Note-On with velocity 100 has been handled by a device with
\* one slot on the message's channel and one on OmniMode, a keydown for each.
C4_Witness ==
    \E s \in Srcs :
       /\ pc[s] = "done"
       /\ cur[s].msg.buf = NoteOn(0, 60, 100)
       /\ m_ChannelMap[cur[s].dev][0] = 0
       /\ m_ChannelMap[cur[s].dev][1] = OmniMode
       /\ \A t \in TGs : CallsTo(calls[s], "keydown", t) # {}

\* C5: before any SetChannel every slot is Disabled; a SetChannel(c, i) with a
\* valid index i makes GetChannel(i) return c, for every channel value c, and
\* leaves the channel of every other slot of every device unchanged.
C5_SetThenGet ==
    /\ \A d \in Devs, i \in TGs : GetChannel(d, i) = Disabled
    /\ [][\A d \in Devs, c \in AllChannels, i \in TGs :
             SetChannel(d, c, i) =>
                /\ GetChannel(d, i)' = c
                /\ \A e \in Devs, j \in TGs :
                      <<e, j>> # <<d, i>> => GetChannel(e, j)' = GetChannel(e, j)]_vars

\* C5 witness: slot 1 of device 1 has been set to OmniMode and slot 0 to 15.
C5_Witness ==
    /\ ~aborted
    /\ GetChannel(1, 0) = 15
    /\ GetChannel(1, 1) = OmniMode
    /\ GetChannel(2, 0) = Disabled

\* The codes C6 is about: negative, 200, or outside every defined range.
IsIgnoredCode(c) ==
    \/ c < 0
    \/ c = 200
    \/ ~(c \in 64 .. 77 \/ c = 100 \/ c = 200 \/ c \in 300 .. 599)

\* C6: once the handler has returned from a SysEx frame with an ignored code,
\* it has called nothing but the classification (and the Thru forward of the
\* handler's entry), the lock is free and the NRPN registers are as
\* constructed; and a voice parameter change delivered after such a frame is
\* processed as usual: setVoiceDataElement(134, 5) and notesOff(0) for every
\* listening slot.
C6_IgnoredCodes ==
    \A s \in Srcs :
       /\ (/\ pc[s] = "done"
           /\ IsSlotSysEx(cur[s].msg)
           /\ IsIgnoredCode(cur[s].msg.code))
          => /\ \A i \in DOMAIN calls[s] :
                   \/ calls[s][i].fn = "checkSystemExclusive"
                   \/ i \in ThruSends(calls[s])
             /\ ~m_MIDISpinLock[cur[s].dev]
             /\ \A t \in TGs :
                   /\ m_NRPNop[cur[s].dev][t] = 0
                   /\ m_NRPNoffset[cur[s].dev][t] = 0
       /\ (/\ SequenceDone(s)
           /\ IsIgnoredCode(queue[s].msgs[1].code))
          => \A t \in Listening(cur[s].dev, 0) :
                /\ Cardinality(CallsTo(calls[s], "setVoiceDataElement", t)) = 1
                /\ \A i \in CallsTo(calls[s], "setVoiceDataElement", t) :
                      calls[s][i].args = <<134, 5>>
                /\ Cardinality(CallsTo(calls[s], "notesOff", t)) = 1
                /\ \A i \in CallsTo(calls[s], "notesOff", t) :
                      calls[s][i].args = <<0>>

\* C6 witness: a frame with the answer -1 and then a voice parameter change
\* have been handled, the second with a call of setVoiceDataElement, and the
\* lock is free.
C6_Witness ==
    \E s \in Srcs :
       /\ SequenceDone(s)
       /\ queue[s].msgs[1].code = 0 - 1
       /\ ~m_MIDISpinLock[cur[s].dev]
       /\ \E t \in Listening(cur[s].dev, 0) :
             CallsTo(calls[s], "setVoiceDataElement", t) # {}

\* The NRPN group of every slot is in 0..6.
GroupInRange == \A d \in Devs, t \in TGs : m_NRPNop[d][t] \in 0 .. 6

\* C7: the selected NRPN group of every slot is always in 0..6, and in the
\* pass of the loop for slot t: a CC99 with a value above 6 leaves every group
\* unchanged, a CC99 with a value v <= 6 sets the group of a listening slot t
\* to v, a CC98 with value v sets the offset of a listening slot t to v, and a
\* CC38 leaves every group and every offset unchanged.
C7_NRPNRegisters ==
    /\ GroupInRange
    /\ [][/\ GroupInRange'
          /\ \A s \in Srcs :
                (pc[s] = "loop" /\ nTGs'[s] = nTGs[s] + 1) =>
                   LET d == cur[s].dev
                       m == cur[s].msg
                       t == nTGs[s]
                       v == m.buf[3]
                       listens == t \in Listening(d, m.buf[1] % 16)
                   IN  /\ (IsCC(m, 99) /\ v > 6) => UNCHANGED m_NRPNop
                       /\ (IsCC(m, 99) /\ v <= 6 /\ listens) =>
                             m_NRPNop'[d][t] = v
                       /\ (IsCC(m, 98) /\ listens) => m_NRPNoffset'[d][t] = v
                       /\ IsCC(m, 38) =>
                             UNCHANGED << m_NRPNop, m_NRPNoffset >>]_vars

\* C7 witness: the handler has returned from a CC99 with value 127 and a
\* listening slot still has group 6 and offset 127 selected.
C7_Witness ==
    \E s \in Srcs :
       /\ pc[s] = "done"
       /\ IsCC(cur[s].msg, 99)
       /\ cur[s].msg.buf[3] = 127
       /\ \E t \in Listening(cur[s].dev, 0) :
             /\ m_NRPNop[cur[s].dev][t] = 6
             /\ m_NRPNoffset[cur[s].dev][t] = 127

\* C8: as long as no assertion has failed, every device that has a name is
\* the registry entry for that name (a second AddDevice with a registered
\* name would have failed an assertion).
C8_NamedIsRegistered ==
    ~aborted =>
       \A d \in Devs :
          m_DeviceName[d] # "" => <<m_DeviceName[d], d>> \in s_DeviceMap

\* C9: once the handler has returned from a SysEx frame with an answer in
\* [500, 600), every registered device has been sent a voice-dump frame for
\* every listening slot, and every such frame names the port the request
\* arrived on.
C9_DumpOnOriginatingPort ==
    \A s \in Srcs :
       (/\ pc[s] = "done"
        /\ IsSlotSysEx(cur[s].msg)
        /\ cur[s].msg.code \in 500 .. 599)
       => \A t \in Listening(cur[s].dev, cur[s].msg.buf[3] % 16) :
             /\ \A e \in s_DeviceMap :
                   \E i \in Dumps(calls[s], t) : calls[s][i].args[1] = e[2]
             /\ \A i \in Dumps(calls[s], t) :
                   calls[s][i].args[3] = cur[s].msg.cable

\* C10: once the handler has returned from a CC94 with value v, for every
\* listening slot SetMasterTune has been called exactly once, with 0 if v = 0,
\* with -99 if v = 1, with 99 if v = 127, and for v in 1..127 with a value x in
\* -99..99 that is -99 + (v - 1) * 198 / 126 cut to an integer (less than one
\* away from it).
C10_Detune ==
    \A s \in Srcs :
       (pc[s] = "done" /\ IsCC(cur[s].msg, 94)) =>
          LET v == cur[s].msg.buf[3]
              cs == calls[s]
          IN  \A t \in Listening(cur[s].dev, cur[s].msg.buf[1] % 16) :
                 /\ Cardinality(CallsTo(cs, "SetMasterTune", t)) = 1
                 /\ \A i \in CallsTo(cs, "SetMasterTune", t) :
                       LET x == cs[i].args[1]
                       IN  /\ Len(cs[i].args) = 1
                           /\ v = 0 => x = 0
                           /\ v = 1 => x = 0 - 99
                           /\ v = 127 => x = 99
                           /\ v \in 1 .. 127 =>
                                 /\ x \in (0 - 99) .. 99
                                 /\ 126 * x - ((v - 1) * 198 - 99 * 126) < 126
                                 /\ ((v - 1) * 198 - 99 * 126) - 126 * x < 126

\* C10 witness: a CC94 with value 127 has been handled and SetMasterTune(99)
\* called for a listening slot.
C10_Witness ==
    \E s \in Srcs :
       /\ pc[s] = "done"
       /\ IsCC(cur[s].msg, 94)
       /\ cur[s].msg.buf[3] = 127
       /\ \E t \in Listening(cur[s].dev, 0) :
             \E i \in CallsTo(calls[s], "SetMasterTune", t) :
                calls[s][i].args = <<99>>

\* The setter of a rescaled Control Change.
RescaledSetter(cc) ==
    CASE cc = 71 -> "SetResonance"
      [] cc = 74 -> "SetCutoff"
      [] cc = 91 -> "SetReverbSend"

\* C11: once the handler has returned from a CC71, CC74 or CC91 with value v,
\* for every listening slot the controller's setter (SetResonance, SetCutoff,
\* SetReverbSend) has been called exactly once, with floor(v * 99 / 127), a
\* value in 0..99 that is 99 for v = 127, 49 for v = 64 and 0 for v = 0, and
\* no setter of the other two controllers has been called.
C11_Rescale ==
    \A s \in Srcs :
       \A cc \in {71, 74, 91} :
          (pc[s] = "done" /\ IsCC(cur[s].msg, cc)) =>
             LET v == cur[s].msg.buf[3]
                 cs == calls[s]
             IN  \A t \in Listening(cur[s].dev, cur[s].msg.buf[1] % 16) :
                    /\ Cardinality(CallsTo(cs, RescaledSetter(cc), t)) = 1
                    /\ \A o \in {71, 74, 91} \ {cc} :
                          CallsTo(cs, RescaledSetter(o), t) = {}
                    /\ \A i \in CallsTo(cs, RescaledSetter(cc), t) :
                          LET x == cs[i].args[1]
                          IN  /\ Len(cs[i].args) = 1
                              /\ x \in 0 .. 99
                              /\ 127 * x <= v * 99
                              /\ v * 99 < 127 * (x + 1)
                              /\ v = 127 => x = 99
                              /\ v = 64 => x = 49
                              /\ v = 0 => x = 0

\* C11 witness: a CC71 with value 64 has been handled and SetResonance(49)
\* called for a listening slot.
C11_Witness ==
    \E s \in Srcs :
       /\ pc[s] = "done"
       /\ IsCC(cur[s].msg, 71)
       /\ cur[s].msg.buf[3] = 64
       /\ \E t \in Listening(cur[s].dev, 0) :
             \E i \in CallsTo(calls[s], "SetResonance", t) :
                calls[s][i].args = <<49>>

\* The calls source s makes in a step (its log grows in every step but its
\* return, which clears it).
NewCalls(s) ==
    IF Len(calls'[s]) > Len(calls[s])
    THEN SubSeq(calls'[s], Len(calls[s]) + 1, Len(calls'[s]))
    ELSE <<>>

\* Source s is between the Acquire and the Release of its invocation.
HoldsLock(s) == pc[s] \in {"loop", "release"}

\* C12: an invocation makes its Thru Send in its first step, before it has
\* acquired the lock and without acquiring it in that step; it makes every
\* Send of a voice dump while it holds the lock of its device, which is held
\* before and after the step.
C12_SendsAndLock ==
    [][\A s \in Srcs :
          \A i \in DOMAIN NewCalls(s) :
             LET c == NewCalls(s)[i]
             IN  /\ (c.fn = "Send" /\ c.ptr = "pMessage") =>
                       /\ pc[s] = "idle"
                       /\ ~HoldsLock(s)'
                       /\ UNCHANGED m_MIDISpinLock
                 /\ (c.fn = "Send" /\ c.ptr = "voicedump") =>
                       /\ HoldsLock(s)
                       /\ m_MIDISpinLock[cur[s].dev]
                       /\ m_MIDISpinLock'[cur[s].dev]]_vars

\* C12 witness: an invocation has made a Thru Send and then, holding the
\* lock, the Send of a voice dump.
C12_Witness ==
    \E s \in Srcs :
       /\ pc[s] = "release"
       /\ m_MIDISpinLock[cur[s].dev]
       /\ ThruSends(calls[s]) # {}
       /\ \E t \in TGs : Dumps(calls[s], t) # {}

\* The lock of a device is held exactly when one invocation on the device is
\* between its Acquire and its Release, and never by two.
LockDiscipline ==
    \A d \in Devs :
       Cardinality({s \in Srcs : HoldsLock(s) /\ cur[s].dev = d}) =
          IF m_MIDISpinLock[d] THEN 1 ELSE 0

C14_ShortDropped ==
    [][\A s \in Srcs :
          /\ (/\ pc[s] = "idle"
              /\ pc'[s] # "idle"
              /\ Len(cur'[s].msg.buf) < 2)
             => /\ pc'[s] = "done"
                /\ \A i \in DOMAIN calls'[s] : i \in ThruSends(calls'[s])
                /\ UNCHANGED << m_ChannelMap, m_NRPNop, m_NRPNoffset,
                                m_MIDISpinLock >>
          /\ (/\ pc[s] = "done"
              /\ pc'[s] # "done"
              /\ Len(cur[s].msg.buf) < 2)
             => /\ pc'[s] = "idle"
                /\ UNCHANGED << m_ChannelMap, m_NRPNop, m_NRPNoffset,
                                m_MIDISpinLock >>]_vars

\* C14 witness: the handler of a device that is not the Thru input has
\* returned from a one-byte message without a call, its lock free.
C14_Witness ==
    \E s \in Srcs :
       /\ pc[s] = "done"
       /\ Len(cur[s].msg.buf) = 1
       /\ calls[s] = <<>>
       /\ ~m_MIDISpinLock[cur[s].dev]
       /\ Listening(cur[s].dev, 0) # {}

\* A frame the test of line 189 takes for the universal master volume.
IsMasterVolumeFrame(buf) ==
    /\ Len(buf) >= 6
    /\ buf[1] = MIDI_SYSTEM_EXCLUSIVE_BEGIN
    /\ buf[4] = 4
    /\ buf[5] = 1
    /\ buf[Len(buf)] = MIDI_SYSTEM_EXCLUSIVE_END

\* C15: when the handler has finished with a master volume frame, whatever
\* the channels of the slots, its log holds, apart from Thru Sends, one call
\* and no more, and that call is setMasterVolume; the selected NRPN registers
\* of the device are as they were constructed.
C15_MasterVolumeOnly ==
    \A s \in Srcs :
       (pc[s] = "done" /\ IsMasterVolumeFrame(cur[s].msg.buf)) =>
          /\ \A i \in DOMAIN calls[s] :
                \/ i \in ThruSends(calls[s])
                \/ calls[s][i].fn = "setMasterVolume"
          /\ Cardinality({i \in DOMAIN calls[s] :
                             calls[s][i].fn = "setMasterVolume"}) = 1
          /\ \A t \in TGs : /\ m_NRPNop[cur[s].dev][t] = 0
                            /\ m_NRPNoffset[cur[s].dev][t] = 0

\* A master volume frame has been handled by a device with an Omni slot and
\* a slot on the channel that byte 2 of the frame names.
C15_Witness ==
    \E s \in Srcs :
       /\ pc[s] = "done"
       /\ IsMasterVolumeFrame(cur[s].msg.buf)
       /\ \E t \in TGs : m_ChannelMap[cur[s].dev][t] = OmniMode
       /\ \E t \in TGs : m_ChannelMap[cur[s].dev][t] = 15
       /\ \E i \in DOMAIN calls[s] : calls[s][i].fn = "setMasterVolume"
       /\ ThruSends(calls[s]) # {}

\* C16: the value handed to setMasterVolume is the 14-bit value of the data
\* bytes at offsets 5 and 6, one as the low seven bits and the other shifted
\* left by 7, divided by 2^14.
C16_FourteenBit ==
    \A s \in Srcs :
       (pc[s] = "done" /\ IsMasterVolumeFrame(cur[s].msg.buf)
                       /\ Len(cur[s].msg.buf) = 8) =>
          \A i \in DOMAIN calls[s] :
             calls[s][i].fn = "setMasterVolume" =>
                LET lo == cur[s].msg.buf[6]
                    hi == cur[s].msg.buf[7]
                IN  16384 * calls[s][i].args[1] \in
                       {lo + 128 * hi, hi + 128 * lo}

\* The calls of a log to fn, for whatever slot.
CallsOf(cs, fn) == {i \in DOMAIN cs : cs[i].fn = fn}

\* A two-byte Program Change.
IsProgramChange(m) ==
    Len(m.buf) = 2 /\ m.buf[1] \div 16 = MIDI_PROGRAM_CHANGE

\* C17: at every point of the handling of a Program Change, ProgramChange has
\* been called only if reception is enabled and the performance select
\* channel is Disabled; ProgramChangePerformance only if reception is
\* enabled and the performance select channel is not Disabled and is the
\* channel of the message or Omni; never both; neither with reception off.
C17_ProgramChange ==
    \A s \in Srcs :
       IsProgramChange(cur[s].msg) =>
          LET slot == CallsOf(calls[s], "ProgramChange")
              perf == CallsOf(calls[s], "ProgramChangePerformance")
              ch == cur[s].msg.buf[1] % 16
          IN  /\ slot # {} =>
                    /\ cfg.RXProgramChange
                    /\ cfg.PerformanceSelectChannel = Disabled
              /\ perf # {} =>
                    /\ cfg.RXProgramChange
                    /\ cfg.PerformanceSelectChannel # Disabled
                    /\ cfg.PerformanceSelectChannel \in {ch, OmniMode}
              /\ slot = {} \/ perf = {}
              /\ ~cfg.RXProgramChange => slot = {} /\ perf = {}

\* A Program Change on the performance select channel has been handled by a
\* device with a listening slot: the performance was selected.
C17_Witness ==
    \E s \in Srcs :
       /\ pc[s] = "done"
       /\ IsProgramChange(cur[s].msg)
       /\ cfg.PerformanceSelectChannel = cur[s].msg.buf[1] % 16
       /\ Listening(cur[s].dev, cur[s].msg.buf[1] % 16) # {}
       /\ CallsOf(calls[s], "ProgramChangePerformance") # {}

\* C18: when the handler has finished with a Control Change 123, notesOff
\* has been called for a slot exactly if the slot is assigned the channel of
\* the message, is not Omni, and the ignore option is off.
C18_AllNotesOff ==
    \A s \in Srcs :
       (pc[s] = "done" /\ IsCC(cur[s].msg, MIDI_CC_ALL_NOTES_OFF)) =>
          \A t \in TGs :
             LET chan == m_ChannelMap[cur[s].dev][t]
             IN  CallsTo(calls[s], "notesOff", t) # {} <=>
                    /\ chan = cur[s].msg.buf[1] % 16
                    /\ chan # OmniMode
                    /\ ~cfg.IgnoreAllNotesOff

\* A Control Change 123 has been handled, with the ignore option off, by a
\* device with an Omni slot and a slot on the channel of the message: the
\* latter got notesOff.
C18_Witness ==
    \E s \in Srcs :
       /\ pc[s] = "done"
       /\ IsCC(cur[s].msg, MIDI_CC_ALL_NOTES_OFF)
       /\ ~cfg.IgnoreAllNotesOff
       /\ \E t \in TGs : m_ChannelMap[cur[s].dev][t] = OmniMode
       /\ \E t \in TGs :
             /\ m_ChannelMap[cur[s].dev][t] = cur[s].msg.buf[1] % 16
             /\ CallsTo(calls[s], "notesOff", t) # {}

\* The channel a message names: the low nibble of byte 2 of a SysEx frame,
\* of the status byte otherwise.
MessageChannel(m) ==
    IF m.buf[1] = MIDI_SYSTEM_EXCLUSIVE_BEGIN
    THEN m.buf[3] % 16
    ELSE m.buf[1] % 16

\* What the pass for slot t of device d has done with message m, if the slot
\* handles it: the decoding of the frame, the call, or the new register.
SlotHandled(s, d, t, m) ==
    LET new == NewCalls(s)
    IN  CASE m.buf[1] = MIDI_SYSTEM_EXCLUSIVE_BEGIN ->
               new # <<>> /\ new[1].fn = "checkSystemExclusive"
          [] IsChannelMsg(m, MIDI_NOTE_ON) ->
               new = <<Call("keydown", <<m.buf[2], m.buf[3]>>, t)>>
          [] IsCC(m, MIDI_CC_NRPN_PARAM_MSB) ->
               m_NRPNop'[d][t] = m.buf[3]
          [] IsCC(m, MIDI_CC_NRPN_PARAM_LSB) ->
               m_NRPNoffset'[d][t] = m.buf[3]
          [] OTHER -> new # <<>>

\* C19: a pass of the loop for slot t handles the message if the channel of
\* the slot is the channel the message names or Omni, and every call it makes
\* is for slot t; otherwise (the slot is Disabled or on another channel) it
\* makes no call at all, decodes no SysEx and leaves the NRPN registers of
\* the slot as they are.  The registers of the other slots never change.
C19_Routing ==
    [][\A s \in Srcs :
          (pc[s] = "loop" /\ nTGs'[s] = nTGs[s] + 1) =>
             LET d == cur[s].dev
                 m == cur[s].msg
                 t == nTGs[s]
                 chan == m_ChannelMap[d][t]
             IN  /\ IF chan = MessageChannel(m) \/ chan = OmniMode
                    THEN /\ SlotHandled(s, d, t, m)
                         /\ \A i \in DOMAIN NewCalls(s) :
                               NewCalls(s)[i].tg = t
                    ELSE /\ NewCalls(s) = <<>>
                         /\ m_NRPNop'[d][t] = m_NRPNop[d][t]
                         /\ m_NRPNoffset'[d][t] = m_NRPNoffset[d][t]
                 /\ \A u \in TGs \ {t} :
                       /\ m_NRPNop'[d][u] = m_NRPNop[d][u]
                       /\ m_NRPNoffset'[d][u] = m_NRPNoffset[d][u]]_vars

\* A SysEx frame for channel 1 has been handled by a device with a slot on
\* channel 1, a slot that is Disabled or on channel 0, and the log holds the
\* decoding for the former only.
C19_Witness ==
    \E s \in Srcs :
       /\ pc[s] = "done"
       /\ IsSlotSysEx(cur[s].msg)
       /\ MessageChannel(cur[s].msg) = 1
       /\ \E t, u \in TGs :
             /\ m_ChannelMap[cur[s].dev][t] = 1
             /\ m_ChannelMap[cur[s].dev][u] \in {0, Disabled}
             /\ CallsTo(calls[s], "checkSystemExclusive", t) # {}
             /\ CallsTo(calls[s], "checkSystemExclusive", u) = {}

\* C20: whatever an invocation for a message of two bytes or more has read
\* of pMessage, it has read at an index below nLength.
C20_ReadsInside ==
    \A s \in Srcs :
       Len(cur[s].msg.buf) >= 2 =>
          \A i \in reads[s] : i < Len(cur[s].msg.buf)

\* C21: the pass of the loop for a listening slot t whose selected offset is
\* 21, on a Control Change 38 with value v, makes one call and no other:
\* ProgramChange (v, t), whatever the selected group and the configuration;
\* so it calls no setter and sends no voice dump.
C21_NRPNProgramChange ==
    [][\A s \in Srcs :
          (/\ pc[s] = "loop"
           /\ nTGs'[s] = nTGs[s] + 1
           /\ IsCC(cur[s].msg, MIDI_CC_NRPN_DATA_LSB)
           /\ nTGs[s] \in Listening(cur[s].dev, cur[s].msg.buf[1] % 16)
           /\ m_NRPNoffset[cur[s].dev][nTGs[s]] = MIDI_NRPN_PROGRAM_CHANGE) =>
             NewCalls(s) =
                <<Call("ProgramChange", <<cur[s].msg.buf[3]>>, nTGs[s])>>]_vars

\* A Control Change 38 has been handled with program change reception off
\* and a performance select channel set, by a device with a listening slot
\* that has group 3 and offset 21 selected: ProgramChange was called for it,
\* no setter was, and no voice dump was sent.
C21_Witness ==
    \E s \in Srcs :
       /\ pc[s] = "done"
       /\ IsCC(cur[s].msg, MIDI_CC_NRPN_DATA_LSB)
       /\ ~cfg.RXProgramChange
       /\ cfg.PerformanceSelectChannel = 0
       /\ \E t \in Listening(cur[s].dev, 0) :
             /\ m_NRPNop[cur[s].dev][t] = 3
             /\ m_NRPNoffset[cur[s].dev][t] = MIDI_NRPN_PROGRAM_CHANGE
             /\ CallsTo(calls[s], "ProgramChange", t) # {}
             /\ Setters(calls[s], t) = {}
             /\ Dumps(calls[s], t) = {}

\* Source s is in the pass of the loop for slot t of device d, which listens
\* on the channel of the message, a Control Change for controller cc.
SelectsAt(s, d, t, cc) ==
    /\ pc[s] = "loop"
    /\ cur[s].dev = d
    /\ nTGs[s] = t
    /\ nTGs'[s] = t + 1
    /\ IsCC(cur[s].msg, cc)
    /\ t \in Listening(d, cur[s].msg.buf[1] % 16)

\* C22: in every step, the selected group of slot t of device d changes only
\* if some invocation on device d is in its pass for slot t with a Control
\* Change 99 on a channel the slot listens on, and the group then is the
\* value of the message; likewise the selected offset and Control Change 98.
\* Every other step (any other message, a pass for a slot that does not
\* listen, any step of an invocation on the other device) leaves them.
C22_RegistersFrame ==
    [][\A d \in Devs, t \in TGs :
          /\ m_NRPNop'[d][t] # m_NRPNop[d][t] =>
                \E s \in Srcs :
                   /\ SelectsAt(s, d, t, MIDI_CC_NRPN_PARAM_MSB)
                   /\ m_NRPNop'[d][t] = cur[s].msg.buf[3]
          /\ m_NRPNoffset'[d][t] # m_NRPNoffset[d][t] =>
                \E s \in Srcs :
                   /\ SelectsAt(s, d, t, MIDI_CC_NRPN_PARAM_LSB)
                   /\ m_NRPNoffset'[d][t] = cur[s].msg.buf[3]]_vars

\* Source 1, which never selects offset 21, has sent a data entry through
\* device 1 after source 2 selected offset 21 there: slot 0 answered with
\* ProgramChange, while the same slot of device 2 still has offset 0.
C22_Witness ==
    /\ pc[1] = "done"
    /\ cur[1].dev = 1
    /\ IsCC(cur[1].msg, MIDI_CC_NRPN_DATA_LSB)
    /\ m_NRPNoffset[1][0] = MIDI_NRPN_PROGRAM_CHANGE
    /\ m_NRPNop[1][0] = 3
    /\ CallsTo(calls[1], "ProgramChange", 0) # {}
    /\ m_NRPNoffset[2][0] = 0

=============================================================================
